---- MODULE Spec2Model ----
(***************************************************************************)
(* Infrastructure configuration validator of motia's step validator:       *)
(* getProportionalCpu, the zod schemas handlerBaseSchema, queueSchema,      *)
(* infrastructureSchema, createInfrastructureSchema, and the entry points   *)
(* validateInfrastructureConfig and validateStep; and the                  *)
(* DeploymentStreamManager of the cloud deployment, whose asynchronous      *)
(* calls interleave at their awaits.                                       *)
(*                                                                         *)
(* A number a caller writes is the exact rational <<numerator,             *)
(* denominator>> (denominator > 0) of its literal; the arithmetic of the    *)
(* source is carried out on IEEE 754 doubles, each operation rounded to the *)
(* nearest double as the source rounds it.                                  *)
(***************************************************************************)
EXTENDS Integers, Sequences, FiniteSets, TLC

VARIABLES
  pc,           \* "call": the arguments are bound; "done": the call returned
  ramMb,        \* argument of getProportionalCpu
  cpu,          \* value returned by getProportionalCpu
  config,       \* argument infrastructureConfig of validateInfrastructureConfig
  inputSchema,  \* argument inputSchema of validateInfrastructureConfig
  result,       \* value returned by (or fault thrown from) validateInfrastructureConfig
  step,         \* argument of validateStep
  stepResult,   \* value returned by (or fault thrown from) validateStep
  store,        \* the stream: deploymentId -> the record stored under it
  procs,        \* the calls on the DeploymentStreamManager, one per position
  now           \* the clock: the value Date.now() returned last, 1 at the start

vars == <<pc, ramMb, cpu, config, inputSchema, result, step, stepResult, store, procs, now>>

\* the variables of the validator calls, of validateStep and of the stream
validatorVars == <<ramMb, cpu, config, inputSchema, result>>
stepVars == <<step, stepResult>>
streamVars == <<store, procs, now>>

----------------------------------------------------------------------------
(* Rational numbers: the numeric literals *)

RECURSIVE GCD(_, _)
GCD(a, b) == IF b = 0 THEN a ELSE GCD(b, a % b)

Rat(n, d) ==
  LET g == GCD(IF n < 0 THEN -n ELSE n, d)
  IN  IF g = 0 THEN <<0, 1>> ELSE <<n \div g, d \div g>>

----------------------------------------------------------------------------
(* Natural numbers of any size: the sequence of their digits to the base    *)
(* Base, least significant first, without a leading zero digit (0 is <<>>). *)

Base == 32768
DigitBits == 15

\* F applied to x: the value x, computed once, under the name F gives it
With(x, F(_)) == F(x)

RECURSIVE NatToInt(_)
NatToInt(a) == IF a = <<>> THEN 0 ELSE a[1] + Base * NatToInt(Tail(a))

RECURSIVE Trim(_)
Trim(a) ==
  IF a # <<>> /\ a[Len(a)] = 0 THEN Trim(SubSeq(a, 1, Len(a) - 1)) ELSE a

NatAdd(a, b) ==
  LET RECURSIVE AddFrom(_, _)
      AddFrom(i, carry) ==
        IF i > Len(a) /\ i > Len(b)
        THEN IF carry = 0 THEN <<>> ELSE <<carry>>
        ELSE LET x == (IF i <= Len(a) THEN a[i] ELSE 0)
                        + (IF i <= Len(b) THEN b[i] ELSE 0) + carry
             IN  <<x % Base>> \o AddFrom(i + 1, x \div Base)
  IN  AddFrom(1, 0)

\* a - b for a >= b
NatSub(a, b) ==
  LET RECURSIVE SubFrom(_, _)
      SubFrom(i, borrow) ==
        IF i > Len(a) THEN <<>>
        ELSE LET x == a[i] - (IF i <= Len(b) THEN b[i] ELSE 0) - borrow
             IN  IF x < 0 THEN <<x + Base>> \o SubFrom(i + 1, 1)
                 ELSE <<x>> \o SubFrom(i + 1, 0)
  IN  Trim(SubFrom(1, 0))

\* -1, 0, 1 as a < b, a = b, a > b
NatCmp(a, b) ==
  LET RECURSIVE CmpFrom(_)
      CmpFrom(i) ==
        IF i = 0 THEN 0
        ELSE IF a[i] < b[i] THEN -1
        ELSE IF a[i] > b[i] THEN 1
        ELSE CmpFrom(i - 1)
  IN  IF Len(a) < Len(b) THEN -1
      ELSE IF Len(a) > Len(b) THEN 1
      ELSE CmpFrom(Len(a))

\* a * k for 0 <= k < Base
NatMulDigit(a, k) ==
  LET RECURSIVE MulDigitFrom(_, _)
      MulDigitFrom(i, carry) ==
        IF i > Len(a)
        THEN IF carry = 0 THEN <<>> ELSE <<carry>>
        ELSE LET x == a[i] * k + carry
             IN  <<x % Base>> \o MulDigitFrom(i + 1, x \div Base)
  IN  IF k = 0 THEN <<>> ELSE MulDigitFrom(1, 0)

RECURSIVE NatMul(_, _)
NatMul(a, b) ==
  IF a = <<>> \/ b = <<>> THEN <<>>
  ELSE LET rest == NatMul(a, Tail(b))
       IN  NatAdd(NatMulDigit(a, b[1]), IF rest = <<>> THEN <<>> ELSE <<0>> \o rest)

\* <<quotient, remainder>> of a by 0 < d < Base
NatDivDigit(a, d) ==
  LET RECURSIVE DivDigitFrom(_)
      DivDigitFrom(i) ==
        IF i > Len(a) THEN << <<>>, 0 >>
        ELSE LET high == DivDigitFrom(i + 1)
                 x == high[2] * Base + a[i]
             IN  << <<x \div d>> \o high[1], x % d >>
  IN  With(DivDigitFrom(1), LAMBDA r : << Trim(r[1]), r[2] >>)

\* a * 2^s
NatShl(a, s) ==
  IF a = <<>> THEN <<>>
  ELSE [i \in 1..(s \div DigitBits) |-> 0] \o NatMulDigit(a, 2 ^ (s % DigitBits))

\* <<a div 2^s, a mod 2^s>>
NatShr(a, s) ==
  LET k == s \div DigitBits
  IN  IF Len(a) <= k THEN << <<>>, a >>
      ELSE With(NatDivDigit(SubSeq(a, k + 1, Len(a)), 2 ^ (s % DigitBits)),
                LAMBDA r : << r[1], Trim(SubSeq(a, 1, k) \o <<r[2]>>) >>)

\* the number of binary digits of a
NatBitLength(a) ==
  LET RECURSIVE BitLength(_)
      BitLength(n) == IF n = 0 THEN 0 ELSE 1 + BitLength(n \div 2)
  IN  IF a = <<>> THEN 0 ELSE DigitBits * (Len(a) - 1) + BitLength(a[Len(a)])

----------------------------------------------------------------------------
(* IEEE 754 double precision numbers.  A finite number is [neg, m, e]: the  *)
(* value (-1)^neg * m * 2^e with m odd (or m = 0, e = 0, neg = FALSE); a    *)
(* double has m < 2^53.  Every operation is the exact result rounded to the *)
(* nearest double, ties to the even significand.  Exponents are not         *)
(* limited: no result here leaves the range of the normal numbers.          *)

Precision == 53

Zero == [neg |-> FALSE, m |-> <<>>, e |-> 0]

\* the exact value m * 2^e in its unique form: the zero bits below the
\* lowest set bit of m move into the exponent
Dyadic(neg, m, e) ==
  LET RECURSIVE TrailingZeros(_, _)
      TrailingZeros(i, n) ==
        IF n = 0 THEN DigitBits + TrailingZeros(i + 1, m[i + 1])
        ELSE IF n % 2 = 1 THEN 0
        ELSE 1 + TrailingZeros(i, n \div 2)
  IN  IF m = <<>> THEN Zero
      ELSE With(TrailingZeros(1, m[1]),
                LAMBDA z : [neg |-> neg, m |-> NatShr(m, z)[1], e |-> e + z])

\* the double nearest to (-1)^neg * m * 2^e
Round(neg, m, e) ==
  With(NatBitLength(m) - Precision, LAMBDA s :
    IF s <= 0 THEN Dyadic(neg, m, e)
    ELSE With(NatShr(m, s), LAMBDA qr :
         With(NatCmp(qr[2], NatShl(<<1>>, s - 1)), LAMBDA c :
           Dyadic(neg,
                  IF c = 1 \/ (c = 0 /\ qr[1][1] % 2 = 1)
                  THEN NatAdd(qr[1], <<1>>) ELSE qr[1],
                  e + s))))

\* the integer n as a number
DblOfInt(n) ==
  LET RECURSIVE NatOfInt(_)
      NatOfInt(k) == IF k = 0 THEN <<>> ELSE <<k % Base>> \o NatOfInt(k \div Base)
  IN  Dyadic(n < 0, NatOfInt(IF n < 0 THEN -n ELSE n), 0)

DblAbs(a) == [a EXCEPT !.neg = FALSE]

DblAdd(a, b) ==
  IF a.m = <<>> THEN b
  ELSE IF b.m = <<>> THEN a
  ELSE LET e == IF a.e < b.e THEN a.e ELSE b.e
       IN  With(NatShl(a.m, a.e - e), LAMBDA ma :
           With(NatShl(b.m, b.e - e), LAMBDA mb :
           With(NatCmp(ma, mb), LAMBDA c :
             Round(IF a.neg = b.neg \/ c >= 0 THEN a.neg ELSE b.neg,
                   IF a.neg = b.neg THEN NatAdd(ma, mb)
                   ELSE IF c >= 0 THEN NatSub(ma, mb) ELSE NatSub(mb, ma),
                   e))))

DblSub(a, b) == IF b.m = <<>> THEN a ELSE DblAdd(a, [b EXCEPT !.neg = ~b.neg])

DblMul(a, b) == Round(a.neg # b.neg, NatMul(a.m, b.m), a.e + b.e)

\* a / b for a divisor whose odd part is below Base: the quotient to 55 bits
\* or more, with one more bit that says whether a remainder is left
DblDiv(a, b) ==
  With(NatBitLength(a.m), LAMBDA n :
  With(IF n < 70 THEN 70 - n ELSE 0, LAMBDA k :
  With(CASE Len(b.m) = 1 -> NatDivDigit(NatShl(a.m, k), b.m[1]), LAMBDA qr :
    Round(a.neg # b.neg,
          NatAdd(NatShl(qr[1], 1), IF qr[2] = 0 THEN <<>> ELSE <<1>>),
          a.e - b.e - k - 1))))

\* the sign of a - b: -1, 0, 1
DblCmp(a, b) ==
  With(DblSub(a, b), LAMBDA s : IF s.m = <<>> THEN 0 ELSE IF s.neg THEN -1 ELSE 1)

DblLT(a, b) == DblCmp(a, b) < 0
DblLE(a, b) == DblCmp(a, b) <= 0

\* the value of the numeric literal n/d: the double nearest to it
Double(n, d) == IF d = 1 THEN DblOfInt(n) ELSE DblDiv(DblOfInt(n), DblOfInt(d))

\* Number.prototype.toFixed(2) as a count of hundredths: the integer n with
\* n / 100 nearest to the exact value of the double, the larger n of two
ToFixed2(a) ==
  With(IF a.e >= 0 THEN NatToInt(NatShl(NatMulDigit(a.m, 100), a.e))
       ELSE With(NatShr(NatMulDigit(a.m, 100), -a.e), LAMBDA qr :
              NatToInt(qr[1])
                + (IF NatCmp(qr[2], NatShl(<<1>>, -a.e - 1)) >= 0 THEN 1 ELSE 0)),
       LAMBDA n : IF a.neg THEN -n ELSE n)

----------------------------------------------------------------------------
(* JavaScript values.  t is the zod parsed type of the value; n carries a   *)
(* number, s a string.                                                      *)

Undefined == [t |-> "undefined", n |-> <<0, 1>>, s |-> ""]
Null      == [t |-> "null",      n |-> <<0, 1>>, s |-> ""]
Num(a, b) == [t |-> "number",    n |-> Rat(a, b), s |-> ""]
Str(x)    == [t |-> "string",    n |-> <<0, 1>>, s |-> x]

\* new Error(message), or an error of a subclass such as TypeError
ErrorObject(message) == [t |-> "error", n |-> <<0, 1>>, s |-> message]

\* error instanceof Error ? error.message : 'Unknown error'
errorMessage(error) == IF error.t = "error" THEN error.s ELSE "Unknown error"

\* the double that a number value is
NumberOf(v) == Double(v.n[1], v.n[2])

\* !v for the values above: undefined, null, "" and 0 are falsy
Falsy(v) ==
  \/ v.t \in {"undefined", "null"}
  \/ v.t = "string" /\ v.s = ""
  \/ v.t = "number" /\ v.n[1] = 0

----------------------------------------------------------------------------
(* AWS_LAMBDA_LIMITS *)

MIN_RAM_MB == 128
MAX_RAM_MB == 10240
MIN_TIMEOUT_SECONDS == 1
MAX_TIMEOUT_SECONDS == 900

(* AWS_LAMBDA_CPU_RATIO: Record<number, number> *)
AWS_LAMBDA_CPU_RATIO ==
  (128 :> Num(1, 16)) @@ (256 :> Num(1, 8)) @@ (512 :> Num(1, 4)) @@
  (1024 :> Num(1, 2)) @@ (1536 :> Num(3, 4)) @@ (2048 :> Num(1, 1)) @@
  (3008 :> Num(3, 2)) @@ (4096 :> Num(2, 1)) @@ (5120 :> Num(5, 2)) @@
  (6144 :> Num(3, 1)) @@ (7168 :> Num(7, 2)) @@ (8192 :> Num(4, 1)) @@
  (9216 :> Num(9, 2)) @@ (10240 :> Num(5, 1))

\* [...].sort((a, b) => a - b): the ascending sequence of the elements of S
RECURSIVE SortAscending(_)
SortAscending(S) ==
  IF S = {} THEN <<>>
  ELSE LET least == CHOOSE x \in S : \A y \in S : x <= y
       IN  <<least>> \o SortAscending(S \ {least})

\* Object.keys(AWS_LAMBDA_CPU_RATIO).map(Number).sort((a, b) => a - b)
ramValues == SortAscending(DOMAIN AWS_LAMBDA_CPU_RATIO)

\* the property of AWS_LAMBDA_CPU_RATIO that the number names: the integer
\* itself for an integer of the size of the keys, -1 for a number that names
\* no key (a negative one, a fraction, a larger one)
PropertyKey(ram) ==
  IF ~ram.neg /\ ram.e >= 0 /\ NatBitLength(ram.m) + ram.e <= 30
  THEN NatToInt(NatShl(ram.m, ram.e))
  ELSE -1

\* the for loop of getProportionalCpu from index i on (1-based); the value
\* it returns from, or the final clamp when no bracket contains ramMb
RECURSIVE InterpolateFrom(_, _)
InterpolateFrom(ram, i) ==
  IF i > Len(ramValues) - 1
  THEN IF DblLE(ram, DblOfInt(ramValues[1]))
       THEN NumberOf(AWS_LAMBDA_CPU_RATIO[ramValues[1]])
       ELSE NumberOf(AWS_LAMBDA_CPU_RATIO[ramValues[Len(ramValues)]])
  ELSE With(ramValues[i], LAMBDA lower :
       With(ramValues[i + 1], LAMBDA upper :
         IF DblLT(DblOfInt(lower), ram) /\ DblLT(ram, DblOfInt(upper))
         THEN With(NumberOf(AWS_LAMBDA_CPU_RATIO[lower]), LAMBDA lowerCpu :
              With(NumberOf(AWS_LAMBDA_CPU_RATIO[upper]), LAMBDA upperCpu :
              With(DblDiv(DblSub(ram, DblOfInt(lower)), DblOfInt(upper - lower)),
                   LAMBDA ratio :
                DblAdd(lowerCpu, DblMul(DblSub(upperCpu, lowerCpu), ratio)))))
         ELSE InterpolateFrom(ram, i + 1)))

\* mutants of getProportionalCpu
getProportionalCpu_NoExact(ram) == InterpolateFrom(ram, 1)

\* the value of the calibration point below
getProportionalCpu_Floor(ram) ==
  IF PropertyKey(ram) \in DOMAIN AWS_LAMBDA_CPU_RATIO
  THEN NumberOf(AWS_LAMBDA_CPU_RATIO[PropertyKey(ram)])
  ELSE LET below == {r \in DOMAIN AWS_LAMBDA_CPU_RATIO : DblLT(DblOfInt(r), ram)}
       IN  IF below = {} THEN NumberOf(AWS_LAMBDA_CPU_RATIO[ramValues[1]])
           ELSE NumberOf(AWS_LAMBDA_CPU_RATIO[CHOOSE r \in below : \A q \in below : q <= r])

\* a line through the origin continued past the outermost calibration points
getProportionalCpu_Extrapolate(ram) ==
  IF PropertyKey(ram) \in DOMAIN AWS_LAMBDA_CPU_RATIO
  THEN NumberOf(AWS_LAMBDA_CPU_RATIO[PropertyKey(ram)])
  ELSE IF DblLT(ram, DblOfInt(ramValues[1])) \/ DblLT(DblOfInt(ramValues[Len(ramValues)]), ram)
  THEN DblDiv(ram, DblOfInt(2048))
  ELSE InterpolateFrom(ram, 1)

\* the ratio taken from the upper end of the bracket
getProportionalCpu_SwappedRatio(ram) ==
  IF PropertyKey(ram) \in DOMAIN AWS_LAMBDA_CPU_RATIO
  THEN NumberOf(AWS_LAMBDA_CPU_RATIO[PropertyKey(ram)])
  ELSE LET below == {r \in DOMAIN AWS_LAMBDA_CPU_RATIO : DblLT(DblOfInt(r), ram)}
           above == {r \in DOMAIN AWS_LAMBDA_CPU_RATIO : DblLT(ram, DblOfInt(r))}
       IN  IF below = {} \/ above = {} THEN InterpolateFrom(ram, 1)
           ELSE LET lower == CHOOSE r \in below : \A q \in below : q <= r
                    upper == CHOOSE r \in above : \A q \in above : r <= q
                    lowerCpu == NumberOf(AWS_LAMBDA_CPU_RATIO[lower])
                    upperCpu == NumberOf(AWS_LAMBDA_CPU_RATIO[upper])
                    ratio == DblDiv(DblSub(DblOfInt(upper), ram), DblOfInt(upper - lower))
                IN  DblAdd(lowerCpu, DblMul(DblSub(upperCpu, lowerCpu), ratio))

getProportionalCpu(ram) ==
  IF PropertyKey(ram) \in DOMAIN AWS_LAMBDA_CPU_RATIO
  THEN NumberOf(AWS_LAMBDA_CPU_RATIO[PropertyKey(ram)])
  ELSE InterpolateFrom(ram, 1)

----------------------------------------------------------------------------
(* zod 3 parsing.  A parse returns a status ("valid", "dirty": issues were  *)
(* added and parsing went on, "aborted": the value is unusable) and adds    *)
(* its issues to the issue list shared by the whole parse.                  *)

\* a message: its text, the numbers and the string interpolated into it
Msg(text, nums, key) == [text |-> text, nums |-> nums, key |-> key]

Issue(code, path, message) == [code |-> code, path |-> path, message |-> message]

OK == [status |-> "valid", issues |-> <<>>]
DIRTY(issues) == [status |-> "dirty", issues |-> issues]
INVALID(issues) == [status |-> "aborted", issues |-> issues]

\* no parse result: the value `fault` was thrown out of _parse
RAISED(fault) == [status |-> "raised", issues |-> <<>>, fault |-> fault]

\* the default message of an invalid_type issue
InvalidType(expected, v, path) ==
  Issue("invalid_type", path,
        IF v.t = "undefined" THEN Msg("Required", <<>>, "")
        ELSE Msg("Expected " \o expected \o ", received " \o v.t, <<>>, ""))

\* ZodNumber check .min(value, message): mutant and original
tooSmall_Inclusive(x, value) == DblLE(Double(x[1], x[2]), DblOfInt(value))
tooSmall(x, value) == DblLT(Double(x[1], x[2]), DblOfInt(value))

\* ZodNumber check .max(value, message)
tooBig(x, value) == DblLT(DblOfInt(value), Double(x[1], x[2]))

\* the issues of the checks of a ZodNumber, in the order they were chained
RECURSIVE NumberCheckIssues(_, _, _)
NumberCheckIssues(x, path, checks) ==
  IF checks = <<>> THEN <<>>
  ELSE LET c == Head(checks)
           failed == IF c.kind = "min" THEN tooSmall(x, c.value) ELSE tooBig(x, c.value)
           code == IF c.kind = "min" THEN "too_small" ELSE "too_big"
       IN  (IF failed THEN <<Issue(code, path, c.message)>> ELSE <<>>)
             \o NumberCheckIssues(x, path, Tail(checks))

\* ZodNumber._parse: a non-number (NaN included) aborts, a failed check is dirty
ZodNumber(v, path, checks) ==
  IF v.t # "number" THEN INVALID(<<InvalidType("number", v, path)>>)
  ELSE LET issues == NumberCheckIssues(v.n, path, checks)
       IN  IF issues = <<>> THEN OK ELSE DIRTY(issues)

\* ZodString._parse
ZodString(v, path) ==
  IF v.t # "string" THEN INVALID(<<InvalidType("string", v, path)>>) ELSE OK

\* ZodEnum._parse: a value outside the options aborts; the mutant is a plain
\* string schema
ZodEnum_AnyString(v, path, options, optionsText) ==
  IF v.t # "string" THEN INVALID(<<InvalidType(optionsText, v, path)>>) ELSE OK
ZodEnum(v, path, options, optionsText) ==
  IF v.t # "string" THEN INVALID(<<InvalidType(optionsText, v, path)>>)
  ELSE IF v.s \notin options
  THEN INVALID(<<Issue("invalid_enum_value", path,
                       Msg("Invalid enum value. Expected " \o optionsText \o ", received '{key}'",
                           <<>>, v.s))>>)
  ELSE OK

\* ZodOptional._parse (and the fields of .partial()): mutant and original
ZodOptional_Required(v, inner) == inner
ZodOptional(v, inner) == IF v.t = "undefined" THEN OK ELSE inner

\* ZodNullable._parse
ZodNullable(v, inner) == IF v.t = "null" THEN OK ELSE inner

\* ParseStatus.mergeObjectSync: aborted if a field is, else dirty if one is
RECURSIVE ConcatIssues(_)
ConcatIssues(results) ==
  IF results = <<>> THEN <<>>
  ELSE Head(results).issues \o ConcatIssues(Tail(results))

mergeObjectSync(results) ==
  LET statuses == {results[i].status : i \in DOMAIN results}
  IN  [status |-> IF "aborted" \in statuses THEN "aborted"
                  ELSE IF "dirty" \in statuses THEN "dirty" ELSE "valid",
       issues |-> ConcatIssues(results)]

\* ZodEffects._parse of a refinement: an aborted inner parse returns at once
\* and the refinement is not run; otherwise its issues make the result dirty.
\* An error thrown by the inner parse passes through.
ZodEffects(inner, refinementIssues) ==
  IF inner.status \in {"aborted", "raised"} THEN inner
  ELSE [status |-> IF refinementIssues # <<>> THEN "dirty" ELSE inner.status,
        issues |-> inner.issues \o refinementIssues]

----------------------------------------------------------------------------
(* The schemas.  A descriptor is                                            *)
(*   [t, unknownKey, handler |-> [t, ram, timeout, cpu, machineType],       *)
(*    queue |-> [t, type, visibilityTimeout, messageGroupId, maxRetries,    *)
(*               retryStrategy]]                                            *)
(* where t is the parsed type of the value ("object" for a plain object),   *)
(* an absent field is Undefined, unknownKey says that the object carries a  *)
(* key other than handler and queue, and handler.t = "throws" stands for an *)
(* accessor property whose read throws an Error, "throwsValue" for one      *)
(* whose read throws a string.                                              *)

\* handlerBaseSchema.partial(): every field optional
handlerBaseSchema(h, path) ==
  IF h.t # "object" THEN INVALID(<<InvalidType("object", h, path)>>)
  ELSE mergeObjectSync(<<
    ZodOptional(h.ram,
      ZodNumber(h.ram, path \o <<"ram">>,
        << [kind |-> "min", value |-> MIN_RAM_MB,
            message |-> Msg("RAM must be at least {0} MB", << <<MIN_RAM_MB, 1>> >>, "")],
           [kind |-> "max", value |-> MAX_RAM_MB,
            message |-> Msg("RAM cannot exceed {0} MB", << <<MAX_RAM_MB, 1>> >>, "")] >>)),
    ZodOptional(h.timeout,
      ZodNumber(h.timeout, path \o <<"timeout">>,
        << [kind |-> "min", value |-> MIN_TIMEOUT_SECONDS,
            message |-> Msg("Timeout must be at least {0}s", << <<MIN_TIMEOUT_SECONDS, 1>> >>, "")],
           [kind |-> "max", value |-> MAX_TIMEOUT_SECONDS,
            message |-> Msg("Timeout cannot exceed {0}s", << <<MAX_TIMEOUT_SECONDS, 1>> >>, "")] >>)),
    ZodOptional(h.cpu, ZodNumber(h.cpu, path \o <<"cpu">>, <<>>)),
    ZodOptional(h.machineType,
      ZodEnum(h.machineType, path \o <<"machineType">>,
              {"cpu", "memory", "gpu"}, "'cpu' | 'memory' | 'gpu'")) >>)

\* queueSchema.partial()
queueSchema(q, path) ==
  IF q.t # "object" THEN INVALID(<<InvalidType("object", q, path)>>)
  ELSE mergeObjectSync(<<
    ZodOptional(q.type,
      ZodEnum(q.type, path \o <<"type">>, {"standard", "fifo"}, "'standard' | 'fifo'")),
    ZodOptional(q.visibilityTimeout,
      ZodNumber(q.visibilityTimeout, path \o <<"visibilityTimeout">>, <<>>)),
    ZodOptional(q.messageGroupId,
      ZodNullable(q.messageGroupId,
        ZodString(q.messageGroupId, path \o <<"messageGroupId">>))),
    ZodOptional(q.maxRetries,
      ZodNumber(q.maxRetries, path \o <<"maxRetries">>,
        << [kind |-> "min", value |-> 0,
            message |-> Msg("maxRetries cannot be negative", <<>>, "")] >>)),
    ZodOptional(q.retryStrategy,
      ZodEnum(q.retryStrategy, path \o <<"retryStrategy">>,
              {"none", "exponential", "jitter"}, "'none' | 'exponential' | 'jitter'")) >>)

\* z.object({...}) without .strict(): unknown keys are stripped, no issue
stripUnknownKeys(c) == OK

\* z.object({ handler: ....optional(), queue: ....optional() }).  The parse
\* reads the property of each key of the shape; an accessor that raises ends
\* it with that error.
infrastructureObject(c) ==
  IF c.t # "object" THEN INVALID(<<InvalidType("object", c, <<>>)>>)
  ELSE IF c.handler.t = "throws" THEN RAISED(ErrorObject("handler unavailable"))
  ELSE IF c.handler.t = "throwsValue" THEN RAISED(Str("handler unavailable"))
  ELSE mergeObjectSync(<<
    ZodOptional(c.handler, handlerBaseSchema(c.handler, <<"handler">>)),
    ZodOptional(c.queue, queueSchema(c.queue, <<"queue">>)),
    stripUnknownKeys(c) >>)

\* config.handler?.f and config.queue?.f
HandlerField(c, f) ==
  IF c.t = "object" /\ c.handler.t = "object" THEN c.handler[f] ELSE Undefined
QueueField(c, f) ==
  IF c.t = "object" /\ c.queue.t = "object" THEN c.queue[f] ELSE Undefined

\* Math.abs(cpu - expectedCpu) > tolerance, tolerance = 0.1, on doubles
exceedsTolerance(c, expectedCpu) ==
  DblLT(Double(1, 10), DblAbs(DblSub(c, expectedCpu)))

\* the superRefine of infrastructureSchema, block 1: CPU proportional to RAM
cpuRefinement(c) ==
  LET hcpu == HandlerField(c, "cpu")
      hram == HandlerField(c, "ram")
  IN  IF hcpu.t # "undefined" /\ hram.t # "undefined"
        /\ hcpu.t = "number" /\ hram.t = "number"
      THEN With(getProportionalCpu(NumberOf(hram)), LAMBDA expectedCpu :
             IF exceedsTolerance(NumberOf(hcpu), expectedCpu)
             THEN <<Issue("custom", <<"handler", "cpu">>,
                      Msg("CPU ({0} vCPU) is not proportional to RAM ({1} MB). Expected approximately {2} vCPU",
                          <<hcpu.n, hram.n, Rat(ToFixed2(expectedCpu), 100)>>, ""))>>
             ELSE <<>>)
      ELSE <<>>

\* visibilityTimeout <= timeout
notGreater(vt, timeout) == DblLE(Double(vt[1], vt[2]), Double(timeout[1], timeout[2]))

\* block 2: visibility timeout greater than handler timeout
visibilityRefinement(c) ==
  LET vt == QueueField(c, "visibilityTimeout")
      timeout == HandlerField(c, "timeout")
  IN  IF vt.t # "undefined" /\ timeout.t # "undefined"
        /\ vt.t = "number" /\ timeout.t = "number"
        /\ notGreater(vt.n, timeout.n)
      THEN <<Issue("custom", <<"queue", "visibilityTimeout">>,
               Msg("Visibility timeout ({0}s) must be greater than handler timeout ({1}s) to prevent premature message redelivery",
                   <<vt.n, timeout.n>>, ""))>>
      ELSE <<>>

\* block 3: fifo requires messageGroupId; the mutant does not look at the key
fifoRefinement_IgnoresKey(c) ==
  LET type == QueueField(c, "type")
  IN  IF type.t = "string" /\ type.s = "fifo"
      THEN <<Issue("custom", <<"queue", "messageGroupId">>,
               Msg("messageGroupId is required when queue type is \"fifo\"", <<>>, ""))>>
      ELSE <<>>
fifoRefinement(c) ==
  LET type == QueueField(c, "type")
  IN  IF type.t = "string" /\ type.s = "fifo" /\ Falsy(QueueField(c, "messageGroupId"))
      THEN <<Issue("custom", <<"queue", "messageGroupId">>,
               Msg("messageGroupId is required when queue type is \"fifo\"", <<>>, ""))>>
      ELSE <<>>

\* infrastructureSchema = z.object({...}).superRefine(...)
infrastructureSchema(c) ==
  ZodEffects(infrastructureObject(c),
             cpuRefinement(c) \o visibilityRefinement(c) \o fifoRefinement(c))

----------------------------------------------------------------------------
(* createInfrastructureSchema and validateInfrastructureConfig.  An input   *)
(* schema is [t, shape |-> [t, keys]]: t = "undefined" when no schema is    *)
(* passed; shape.t is "object" for a field map with the own keys `keys`,    *)
(* "undefined" when the schema object has no shape, "number" for a shape    *)
(* that is a primitive, "throws" when reading the shape throws an Error,   *)
(* "throwsValue" when it throws a string.                                   *)

\* String.prototype.includes for a one-character search string
RECURSIVE Includes(_, _)
Includes(str, ch) ==
  IF Len(str) = 0 THEN FALSE
  ELSE IF SubSeq(str, 1, 1) = ch THEN TRUE
  ELSE Includes(SubSeq(str, 2, Len(str)), ch)

\* the property names every plain object inherits from Object.prototype
ObjectPrototypeKeys ==
  {"constructor", "hasOwnProperty", "isPrototypeOf", "propertyIsEnumerable",
   "toLocaleString", "toString", "valueOf", "__proto__",
   "__defineGetter__", "__defineSetter__", "__lookupGetter__", "__lookupSetter__"}

\* key in shape, for a shape that is an object: own or inherited property
InShape(key, shape) == key \in shape.keys \cup ObjectPrototypeKeys

GroupIdIssue(message) == <<Issue("custom", <<"queue", "messageGroupId">>, message)>>

\* the value the try block throws: the Error or the string that the getter
\* of inputSchema.shape throws, or the TypeError of `in`
lookupFault(schema) ==
  IF schema.shape.t = "throws" THEN ErrorObject("shape unavailable")
  ELSE IF schema.shape.t = "throwsValue" THEN Str("shape unavailable")
  ELSE ErrorObject("Cannot use 'in' operator to search for '{key}' in 5")

\* the try block of the messageGroupId refinement and its catch: the block
\* throws when reading the shape throws or the shape is a primitive
shapeLookup(key, schema) ==
  IF schema.shape.t \notin {"undefined", "object"}
  THEN GroupIdIssue(Msg("Failed to validate messageGroupId \"{key}\" against input schema: "
                          \o errorMessage(lookupFault(schema)),
                        <<>>, key))
  ELSE IF schema.shape.t = "undefined" \/ ~InShape(key, schema.shape)
  THEN GroupIdIssue(Msg("messageGroupId \"{key}\" does not exist in step's input schema", <<>>, key))
  ELSE <<>>

\* a refinement that returns when there is no input schema
messageGroupIdRefinement_SkipNoSchema(c, schema) ==
  LET messageGroupId == QueueField(c, "messageGroupId")
  IN  IF Falsy(messageGroupId) \/ messageGroupId.t # "string" THEN <<>>
      ELSE IF schema.t = "undefined" THEN <<>>
      ELSE IF Includes(messageGroupId.s, ".") \/ Includes(messageGroupId.s, "[")
      THEN GroupIdIssue(Msg("messageGroupId \"{key}\" must be a simple field path. Nested paths and template expressions are not supported",
                            <<>>, messageGroupId.s))
      ELSE shapeLookup(messageGroupId.s, schema)

\* the superRefine added by createInfrastructureSchema(inputSchema)
messageGroupIdRefinement(c, schema) ==
  LET messageGroupId == QueueField(c, "messageGroupId")
  IN  IF Falsy(messageGroupId) \/ messageGroupId.t # "string" THEN <<>>
      ELSE IF schema.t = "undefined"
      THEN GroupIdIssue(Msg("Cannot validate messageGroupId \"{key}\" - step has no input schema defined",
                            <<>>, messageGroupId.s))
      ELSE IF Includes(messageGroupId.s, ".") \/ Includes(messageGroupId.s, "[")
      THEN GroupIdIssue(Msg("messageGroupId \"{key}\" must be a simple field path. Nested paths and template expressions are not supported",
                            <<>>, messageGroupId.s))
      ELSE shapeLookup(messageGroupId.s, schema)

\* createInfrastructureSchema(inputSchema).parse(config) up to its outcome
createInfrastructureSchema(c, schema) ==
  ZodEffects(infrastructureSchema(c), messageGroupIdRefinement(c, schema))

\* Array.prototype.join
RECURSIVE Join(_, _)
Join(path, sep) ==
  IF path = <<>> THEN ""
  ELSE IF Len(path) = 1 THEN path[1]
  ELSE path[1] \o sep \o Join(Tail(path), sep)

\* err.path.length > 0 ? err.path.join('.') : 'infrastructure'
errorPath(path) == IF Len(path) > 0 THEN Join(path, ".") ELSE "infrastructure"

\* error.errors.map((err) => ({ path: ..., message: err.message }))
mapErrors(issues) ==
  [i \in DOMAIN issues |->
     [path |-> errorPath(issues[i].path), message |-> issues[i].message]]

Returned(success, errors) ==
  [kind |-> "return", success |-> success, errors |-> errors, fault |-> Undefined]

\* the catch of an error that is no ZodError: mutant (rethrown) and original
unexpectedError_Rethrow(fault) ==
  [kind |-> "throw", success |-> FALSE, errors |-> <<>>, fault |-> fault]
unexpectedError(fault) ==
  Returned(FALSE, <<[path |-> "infrastructure",
                     message |-> Msg("Unexpected validation error: " \o errorMessage(fault),
                                     <<>>, "")]>>)

\* schema.parse(infrastructureConfig) throws an error that is no ZodError
ParseRaises(c) == infrastructureObject(c).status = "raised"

validateInfrastructureConfig(c, schema) ==
  With(createInfrastructureSchema(c, schema), LAMBDA parsed :
    IF parsed.status = "raised" THEN unexpectedError(parsed.fault)
    ELSE IF parsed.status = "valid" THEN Returned(TRUE, <<>>)
    ELSE Returned(FALSE, mapErrors(parsed.issues)))

----------------------------------------------------------------------------
(* validateStep and the strict step schemas.  A step is                     *)
(* [hasConfig, keys, type, fields, infrastructure]: reading                 *)
(* step.config.type raises a TypeError when the step has no config; keys is *)
(* the sequence of the keys of the config in the order the object lists     *)
(* them; type, fields[k] and infrastructure (a descriptor) are the values   *)
(* of the keys, which may be undefined for a key the object has.            *)

EmptyArray == [t |-> "array", n |-> <<0, 1>>, s |-> ""]
EmptyObject == [t |-> "object", n |-> <<0, 1>>, s |-> ""]

Field(key, expects, optional) ==
  [key |-> key, expects |-> expects, optional |-> optional, value |-> ""]

\* z.literal(value)
Literal(key, value) ==
  [key |-> key, expects |-> "literal", optional |-> FALSE, value |-> value]

\* the shape without the infrastructure key
stepShape_NoInfrastructure(kind) ==
  CASE kind = "noop" ->
         << Literal("type", kind), Field("name", "string", FALSE),
            Field("description", "string", TRUE), Field("virtualEmits", "array", FALSE),
            Field("virtualSubscribes", "array", FALSE), Field("flows", "array", TRUE) >>
    [] kind = "event" ->
         << Literal("type", kind), Field("name", "string", FALSE),
            Field("description", "string", TRUE), Field("subscribes", "array", FALSE),
            Field("emits", "array", FALSE), Field("virtualEmits", "array", TRUE),
            Field("virtualSubscribes", "array", TRUE), Field("input", "any", TRUE),
            Field("flows", "array", TRUE), Field("includeFiles", "array", TRUE) >>
    [] kind = "api" ->
         << Literal("type", kind), Field("name", "string", FALSE),
            Field("description", "string", TRUE), Field("path", "string", FALSE),
            Field("method", "string", FALSE), Field("emits", "array", FALSE),
            Field("virtualEmits", "array", TRUE), Field("virtualSubscribes", "array", TRUE),
            Field("flows", "array", TRUE), Field("includeFiles", "array", TRUE),
            Field("middleware", "array", TRUE), Field("queryParams", "array", TRUE),
            Field("bodySchema", "any", TRUE), Field("responseSchema", "object", TRUE) >>
    [] kind = "cron" ->
         << Literal("type", kind), Field("name", "string", FALSE),
            Field("description", "string", TRUE), Field("cron", "string", FALSE),
            Field("virtualEmits", "array", TRUE), Field("virtualSubscribes", "array", TRUE),
            Field("emits", "array", FALSE), Field("flows", "array", TRUE),
            Field("includeFiles", "array", TRUE) >>

\* noopSchema, eventSchema, apiSchema, cronSchema: the keys in the order of
\* the z.object, what each expects and whether it is .optional().  "any"
\* stands for z.any() and for the unions over jsonSchema, which accept every
\* value tried here; "object" for the z.record
stepShape(kind) ==
  IF kind = "noop" THEN stepShape_NoInfrastructure(kind)
  ELSE stepShape_NoInfrastructure(kind) \o << Field("infrastructure", "any", TRUE) >>

\* the keys of the schemas and a key none of them has, in the order in
\* which the configs tried list them
DataKeys ==
  << "type", "name", "description", "subscribes", "emits", "virtualEmits",
     "virtualSubscribes", "input", "flows", "includeFiles", "path", "method",
     "middleware", "queryParams", "bodySchema", "responseSchema", "cron",
     "infrastructure", "unknownKey" >>

\* key in config (own property)
HasKey(s, key) == \E i \in DOMAIN s.keys : s.keys[i] = key

\* config[key]
StepValue(s, key) ==
  IF ~HasKey(s, key) THEN Undefined
  ELSE IF key = "type" THEN s.type
  ELSE IF key = "infrastructure" THEN s.infrastructure
  ELSE s.fields[key]

\* the _parse of one key of a step schema: a literal accepts its value only
parseStepField(v, f) ==
  IF f.expects = "literal"
  THEN IF v.t = "string" /\ v.s = f.value THEN <<>>
       ELSE <<Issue("invalid_literal", <<f.key>>,
                    Msg("Invalid literal value, expected \"" \o f.value \o "\"", <<>>, ""))>>
  ELSE IF v.t = "undefined"
  THEN IF f.optional \/ f.expects = "any" THEN <<>>
       ELSE <<InvalidType(f.expects, v, <<f.key>>)>>
  ELSE IF f.expects = "any" \/ v.t = f.expects THEN <<>>
  ELSE <<InvalidType(f.expects, v, <<f.key>>)>>

RECURSIVE parseStepFields(_, _)
parseStepFields(s, shape) ==
  IF shape = <<>> THEN <<>>
  ELSE parseStepField(StepValue(s, Head(shape).key), Head(shape))
         \o parseStepFields(s, Tail(shape))

\* .strict(): the keys of the config that the shape does not have, in the
\* order of the config (for (const key in data))
unrecognizedKeys(s, shape) ==
  LET shapeKeys == {shape[i].key : i \in DOMAIN shape}
  IN  SelectSeq(s.keys, LAMBDA k : k \notin shapeKeys)

strictIssues(s, shape) ==
  LET extraKeys == unrecognizedKeys(s, shape)
  IN  IF extraKeys = <<>> THEN <<>>
      ELSE <<Issue("unrecognized_keys", <<>>,
                   Msg("Unrecognized key(s) in object: "
                         \o Join([i \in DOMAIN extraKeys |-> "'" \o extraKeys[i] \o "'"], ", "),
                       <<>>, ""))>>

\* <kind>Schema.parse(step.config): the issues of the ZodError, none when
\* the parse returns
parseStepConfig(s, kind) ==
  parseStepFields(s, stepShape(kind)) \o strictIssues(s, stepShape(kind))

StepSuccess ==
  [kind |-> "return", success |-> TRUE, error |-> "", hasErrors |-> FALSE, errors |-> <<>>]
\* a failure without the errors property
StepFailure(error) ==
  [kind |-> "return", success |-> FALSE, error |-> error, hasErrors |-> FALSE, errors |-> <<>>]

\* the return for a ZodError
zodErrorResult(issues) ==
  [kind |-> "return", success |-> FALSE,
   error |-> Join([i \in DOMAIN issues |-> issues[i].message.text], ", "),
   hasErrors |-> TRUE,
   errors |-> [i \in DOMAIN issues |->
                 [path |-> Join(issues[i].path, "."), message |-> issues[i].message]]]

\* the catch of an error that is no ZodError: mutant (rethrown) and original
unexpectedStepError_Rethrow(fault) ==
  [kind |-> "throw", success |-> FALSE, error |-> fault, hasErrors |-> FALSE, errors |-> <<>>]
unexpectedStepError(fault) == StepFailure("Unexpected validation error occurred")

validateStep(s) ==
  IF ~s.hasConfig
  THEN unexpectedStepError("Cannot read properties of undefined (reading 'type')")
  ELSE LET type == StepValue(s, "type")
       IN  IF type.t = "string" /\ type.s \in {"noop", "event", "api", "cron"}
           THEN LET issues == parseStepConfig(s, type.s)
                IN  IF issues = <<>> THEN StepSuccess ELSE zodErrorResult(issues)
           ELSE StepFailure("Invalid step type")

----------------------------------------------------------------------------
(* DeploymentStreamManager.  The stream is the function `store` from the    *)
(* deploymentIds that have a record to that record; a record is a function  *)
(* from its property names to their values, so that an object spread        *)
(* { ...a, ...b } is b @@ a.  phase null is "null"; an error that was not   *)
(* passed is "undefined", as the template literal prints it.  Each awaited  *)
(* stream.get and stream.set is one step of the call that awaits it; the    *)
(* calls interleave between these steps.                                    *)

MaxCalls == 3

DeploymentIds == {"d1", "d2"}
PackagePaths == {"a", "b"}

\* createDefaultDeploymentData(deploymentId)
createDefaultDeploymentData(deploymentId) ==
  [id |-> deploymentId, status |-> "idle", phase |-> "null", progress |-> 0,
   message |-> "No deployment in progress", build |-> <<>>, upload |-> <<>>,
   metadata |-> [totalSteps |-> 0]]

\* getDeployment: <<the record>>, or <<>> for null
getDeployment(deploymentId) ==
  IF deploymentId \in DOMAIN store THEN <<store[deploymentId]>> ELSE <<>>

\* the record updateDeployment writes without the id of the call put last
updateDeploymentValue_KeepDataId(current, deploymentId, data) ==
  IF current = <<>>
  THEN data @@ createDefaultDeploymentData(deploymentId)
  ELSE data @@ ("deploymentId" :> deploymentId) @@ current[1]

\* the record updateDeployment passes to stream.set
updateDeploymentValue(current, deploymentId, data) ==
  IF current = <<>>
  THEN ("id" :> deploymentId) @@ data @@ createDefaultDeploymentData(deploymentId)
  ELSE ("id" :> deploymentId) @@ ("deploymentId" :> deploymentId) @@ data @@ current[1]

\* the record startDeployment passes to stream.set
startDeploymentValue(deploymentId, time) ==
  ("id" :> deploymentId) @@
  [status |-> "building", phase |-> "build", startedAt |-> time,
   message |-> "Starting deployment..."] @@
  createDefaultDeploymentData(deploymentId)

\* the record completeDeployment passes to stream.set
completeDeploymentValue(current, success, error, time) ==
  [status |-> IF success THEN "completed" ELSE "failed",
   phase |-> "null",
   progress |-> 100,
   message |-> IF success THEN "Deployment completed successfully"
               ELSE "Deployment failed: " \o error,
   completedAt |-> time,
   error |-> error] @@ current

\* list.findIndex((b) => b.packagePath === packagePath), 1-based; 0 for -1
findIndex(list, packagePath) ==
  IF \E i \in DOMAIN list : list[i].packagePath = packagePath
  THEN CHOOSE i \in DOMAIN list :
         /\ list[i].packagePath = packagePath
         /\ \A j \in DOMAIN list : list[j].packagePath = packagePath => i <= j
  ELSE 0

\* the list with the output always pushed
updatedOutputs_AlwaysPush(list, output) == Append(list, output)

\* updatedBuild / updatedUpload
updatedOutputs(list, output) ==
  LET existingIndex == findIndex(list, output.packagePath)
  IN  IF existingIndex >= 1 THEN [list EXCEPT ![existingIndex] = output]
      ELSE Append(list, output)

\* list.filter((b) => b.status === status).length
countStatus(list, status) == Cardinality({i \in DOMAIN list : list[i].status = status})

\* { ...current.metadata, <counter>, totalSteps: current.metadata?.totalSteps || updated.length }
outputMetadata(current, updated, counter, status) ==
  LET metadata == IF "metadata" \in DOMAIN current THEN current.metadata ELSE <<>>
      totalSteps == IF "totalSteps" \in DOMAIN metadata THEN metadata.totalSteps ELSE 0
  IN  (counter :> countStatus(updated, status)) @@
      ("totalSteps" :> (IF totalSteps # 0 THEN totalSteps ELSE Len(updated))) @@
      metadata

\* the data updateBuildOutput passes to updateDeployment
buildOutputData(current, buildOutput) ==
  LET updatedBuild == updatedOutputs(current.build, buildOutput)
  IN  [build |-> updatedBuild,
       metadata |-> outputMetadata(current, updatedBuild, "buildedSteps", "built")]

\* the data updateUploadOutput passes to updateDeployment
uploadOutputData(current, uploadOutput) ==
  LET updatedUpload == updatedOutputs(current.upload, uploadOutput)
  IN  [upload |-> updatedUpload,
       metadata |-> outputMetadata(current, updatedUpload, "uploadedSteps", "uploaded")]

----------------------------------------------------------------------------
(* Calls of getProportionalCpu on every integer RAM value up to MaxRam, on  *)
(* a value far above the table and on fractions: the halves next to         *)
(* calibration points, and values that are no double                        *)

MaxRam == 10300

FractionalRams ==
  { <<2 * k + 1, 2>> : k \in {0, 127, 128, 255, 256, 2047, 2048, 3007, 3008, 10239, 10240} }
  \cup { <<1, 3>>, <<1279, 10>>, <<20481, 10>>, <<40001, 10>>, <<102399, 10>> }

RamValuesTried ==
  { <<n, 1>> : n \in (0..MaxRam) \cup {20000} } \cup FractionalRams

NoConfig == [kind |-> "none"]
NoSchema == [kind |-> "none"]
NoResult == [kind |-> "none", success |-> FALSE, errors |-> <<>>, fault |-> Undefined]
NoStep == [kind |-> "none"]
NoStepResult == [kind |-> "none"]

\* no validateStep call and no stream
StepIdle == step = NoStep /\ stepResult = NoStepResult
StreamIdle == store = <<>> /\ procs = <<>> /\ now = 1

InitCpu ==
  /\ pc = "call"
  /\ ramMb \in RamValuesTried
  /\ cpu = Zero
  /\ config = NoConfig
  /\ inputSchema = NoSchema
  /\ result = NoResult
  /\ StepIdle /\ StreamIdle

CallGetProportionalCpu ==
  /\ pc = "call"
  /\ cpu' = getProportionalCpu(Double(ramMb[1], ramMb[2]))
  /\ pc' = "done"
  /\ UNCHANGED <<ramMb, config, inputSchema, result, stepVars, streamVars>>

NextCpu == CallGetProportionalCpu

SpecCpu == InitCpu /\ [][NextCpu]_vars

----------------------------------------------------------------------------
(* Calls of validateInfrastructureConfig.  The descriptors are those that   *)
(* differ in at most MaxEdits places from the empty descriptor {} or from   *)
(* the complete descriptor of the build tests, plus the values that are no  *)
(* plain object.                                                            *)

MaxEdits == 2

Places ==
  <<"handler", "ram", "timeout", "cpu", "machineType",
    "queue", "type", "visibilityTimeout", "messageGroupId", "maxRetries",
    "retryStrategy", "unknownKey">>

\* The values tried at each place.  At "handler" and "queue": "auto" (an
\* object when one of its fields is present, absent otherwise), "object"
\* (an object in any case) and "string" (a value that is no object).
Samples(place) ==
  CASE place = "handler" -> {Str("auto"), Str("object"), Str("string")}
    [] place = "queue" -> {Str("auto"), Str("object"), Str("string")}
    [] place = "unknownKey" -> {Str("no"), Str("yes")}
    [] place = "ram" ->
         {Undefined, Num(127, 1), Num(128, 1), Num(1792, 1), Num(2048, 1),
          Num(4097, 2), Num(2096, 1), Num(2240, 1), Num(10240, 1), Num(10241, 1),
          Str("big")}
    [] place = "timeout" ->
         {Undefined, Num(0, 1), Num(1, 1), Num(30, 1), Num(900, 1), Num(901, 1),
          Str("long")}
    [] place = "cpu" ->
         {Undefined, Num(9, 10), Num(15, 16), Num(1, 1), Num(11, 10), Num(9, 8), Num(3, 1)}
    [] place = "machineType" ->
         {Undefined, Str("cpu"), Str("memory"), Str("gpu"), Str("invalid")}
    [] place = "type" -> {Undefined, Str("standard"), Str("fifo"), Str("invalid")}
    [] place = "visibilityTimeout" ->
         {Undefined, Num(1, 1), Num(30, 1), Num(31, 1), Str("long")}
    [] place = "messageGroupId" ->
         {Undefined, Null, Str(""), Str("traceId"), Str("missing"), Str("user.id"),
          Str("items[0]"), Str("toString"), Num(5, 1)}
    [] place = "maxRetries" -> {Undefined, Num(-1, 1), Num(0, 1), Num(5, 1), Num(3, 2)}
    [] place = "retryStrategy" ->
         {Undefined, Str("none"), Str("exponential"), Str("jitter"), Str("invalid")}

PlaceSet == {Places[i] : i \in DOMAIN Places}

\* {}
EmptyDescriptor ==
  [p \in PlaceSet |->
     CASE p \in {"handler", "queue"} -> Str("auto")
       [] p = "unknownKey" -> Str("no")
       [] OTHER -> Undefined]

\* the descriptor of 'should accept complete infrastructure configuration'
CompleteDescriptor ==
  [p \in PlaceSet |->
     CASE p \in {"handler", "queue"} -> Str("auto")
       [] p = "unknownKey" -> Str("no")
       [] p = "ram" -> Num(2048, 1)
       [] p = "timeout" -> Num(30, 1)
       [] p = "cpu" -> Num(1, 1)
       [] p = "machineType" -> Str("cpu")
       [] p = "type" -> Str("fifo")
       [] p = "visibilityTimeout" -> Num(31, 1)
       [] p = "messageGroupId" -> Str("traceId")
       [] p = "maxRetries" -> Num(5, 1)
       [] p = "retryStrategy" -> Str("exponential")]

\* the descriptors obtained from d by changing at most k of the places i..
RECURSIVE Variants(_, _, _)
Variants(d, i, k) ==
  IF i > Len(Places) THEN {d}
  ELSE Variants(d, i + 1, k) \cup
       (IF k = 0 THEN {}
        ELSE UNION { Variants([d EXCEPT ![Places[i]] = v], i + 1, k - 1) :
                       v \in Samples(Places[i]) \ {d[Places[i]]} })

SubObject(d, place, fields) ==
  LET present == \E f \in fields : d[f].t # "undefined"
      t == IF d[place].s = "string" THEN "string"
           ELSE IF d[place].s = "object" \/ present THEN "object"
           ELSE "undefined"
  IN  [f \in fields \cup {"t"} |->
         IF f = "t" THEN t ELSE IF t = "object" THEN d[f] ELSE Undefined]

HandlerFields == {"ram", "timeout", "cpu", "machineType"}
QueueFields ==
  {"type", "visibilityTimeout", "messageGroupId", "maxRetries", "retryStrategy"}

AbsentHandler == [f \in HandlerFields \cup {"t"} |-> IF f = "t" THEN "undefined" ELSE Undefined]
AbsentQueue == [f \in QueueFields \cup {"t"} |-> IF f = "t" THEN "undefined" ELSE Undefined]

ObjectDescriptor(d) ==
  [t |-> "object",
   unknownKey |-> d["unknownKey"].s = "yes",
   handler |-> SubObject(d, "handler", HandlerFields),
   queue |-> SubObject(d, "queue", QueueFields)]

\* null, undefined, a string, a number, an array
OtherDescriptor(t) ==
  [t |-> t, unknownKey |-> FALSE, handler |-> AbsentHandler, queue |-> AbsentQueue]

\* an object whose handler property raises when read: the getter throws an
\* Error ("throws") or a string ("throwsValue")
RaisingDescriptor(t) ==
  [t |-> "object", unknownKey |-> FALSE,
   handler |-> [AbsentHandler EXCEPT !["t"] = t], queue |-> AbsentQueue]

DescriptorsWithin(edits) ==
  { ObjectDescriptor(d) :
      d \in Variants(EmptyDescriptor, 1, edits)
              \cup Variants(CompleteDescriptor, 1, edits) }
  \cup { OtherDescriptor(t) : t \in {"null", "undefined", "string", "number", "array"} }
  \cup { RaisingDescriptor(t) : t \in {"throws", "throwsValue"} }

Shape(t, keys) == [t |-> t, keys |-> keys]

\* no schema; z.object({ traceId, userId }); an object without a shape; a
\* shape that is a primitive; a shape whose read throws an Error; a shape
\* whose read throws a string
InputSchemas ==
  { [t |-> "undefined", shape |-> Shape("undefined", {})],
    [t |-> "object", shape |-> Shape("object", {"traceId", "userId"})],
    [t |-> "object", shape |-> Shape("undefined", {})],
    [t |-> "object", shape |-> Shape("number", {})],
    [t |-> "object", shape |-> Shape("throws", {})],
    [t |-> "object", shape |-> Shape("throwsValue", {})] }

Init ==
  /\ pc = "call"
  /\ config \in DescriptorsWithin(MaxEdits)
  /\ inputSchema \in InputSchemas
  /\ result = NoResult
  /\ ramMb = <<0, 1>>
  /\ cpu = Zero
  /\ StepIdle /\ StreamIdle

CallValidateInfrastructureConfig ==
  /\ pc = "call"
  /\ result' = validateInfrastructureConfig(config, inputSchema)
  /\ pc' = "done"
  /\ UNCHANGED <<config, inputSchema, ramMb, cpu, stepVars, streamVars>>

Next == CallValidateInfrastructureConfig

Spec == Init /\ [][Next]_vars

----------------------------------------------------------------------------
(* Calls of validateStep.  The steps are a valid step of each kind with one *)
(* key set to each of the values tried or left out, next to each            *)
(* infrastructure value, with the keys in the order of the schemas and in   *)
(* the reverse order; steps of another type; and a step without config.     *)

StepFieldNames == {DataKeys[i] : i \in DOMAIN DataKeys} \ {"type", "infrastructure"}

StepValues == {Undefined, Str("x"), EmptyArray, Num(5, 1), EmptyObject}

\* undefined; the complete descriptor; one with RAM below the minimum; a number
InfrastructureValues ==
  { OtherDescriptor("undefined"),
    ObjectDescriptor(CompleteDescriptor),
    ObjectDescriptor([CompleteDescriptor EXCEPT !["ram"] = Num(127, 1)]),
    OtherDescriptor("number") }

\* { ...config, [key]: value }
WithKey(s, key, v) ==
  LET keys == IF HasKey(s, key) THEN s.keys ELSE Append(s.keys, key)
  IN  IF key = "type" THEN [s EXCEPT !.keys = keys, !.type = v]
      ELSE IF key = "infrastructure" THEN [s EXCEPT !.keys = keys, !.infrastructure = v]
      ELSE [s EXCEPT !.keys = keys, !.fields[key] = v]

\* the config without the key
WithoutKey(s, key) ==
  LET keys == SelectSeq(s.keys, LAMBDA k : k # key)
  IN  IF key = "type" THEN [s EXCEPT !.keys = keys, !.type = Undefined]
      ELSE IF key = "infrastructure"
      THEN [s EXCEPT !.keys = keys, !.infrastructure = OtherDescriptor("undefined")]
      ELSE [s EXCEPT !.keys = keys, !.fields[key] = Undefined]

\* the same config with its keys listed in the reverse order
Reversed(s) == [s EXCEPT !.keys = [i \in DOMAIN s.keys |-> s.keys[Len(s.keys) + 1 - i]]]

\* a step of the kind with exactly its required keys
BaseStep(kind) ==
  LET shape == stepShape(kind)
      required == {shape[i].key : i \in {j \in DOMAIN shape : ~shape[j].optional}}
      sample(key) ==
        LET f == shape[CHOOSE i \in DOMAIN shape : shape[i].key = key]
        IN  IF f.expects = "array" THEN EmptyArray ELSE Str("x")
  IN  [hasConfig |-> TRUE,
       keys |-> SelectSeq(DataKeys, LAMBDA k : k \in required),
       type |-> Str(kind),
       fields |-> [k \in StepFieldNames |-> IF k \in required THEN sample(k) ELSE Undefined],
       infrastructure |-> OtherDescriptor("undefined")]

Steps ==
  LET bases == {BaseStep(kind) : kind \in {"noop", "event", "api", "cron"}}
      edited == bases
                \cup { WithKey(b, k, v) : b \in bases, k \in StepFieldNames, v \in StepValues }
                \cup { WithoutKey(b, k) : b \in bases, k \in StepFieldNames }
      typed == edited
               \cup { WithKey(BaseStep("event"), "type", t) :
                        t \in {Str("invalid"), Str("noop"), Undefined, Num(5, 1)} }
               \cup { WithoutKey(BaseStep("event"), "type") }
      withInfrastructure ==
        typed \cup { WithKey(e, "infrastructure", i) : e \in typed, i \in InfrastructureValues }
  IN  withInfrastructure
      \cup { Reversed(e) : e \in withInfrastructure }
      \cup { [BaseStep("event") EXCEPT !.hasConfig = FALSE] }

InitStep ==
  /\ pc = "call"
  /\ step \in Steps
  /\ stepResult = NoStepResult
  /\ ramMb = <<0, 1>> /\ cpu = Zero
  /\ config = NoConfig /\ inputSchema = NoSchema /\ result = NoResult
  /\ StreamIdle

CallValidateStep ==
  /\ pc = "call"
  /\ stepResult' = validateStep(step)
  /\ pc' = "done"
  /\ UNCHANGED <<step, validatorVars, streamVars>>

NextStep == CallValidateStep

SpecStep == InitStep /\ [][NextStep]_vars

----------------------------------------------------------------------------
(* Calls on one DeploymentStreamManager.  procs[p] is the p-th call made:   *)
(* its operation and arguments, its position (pc) and its locals.  A call   *)
(* runs up to its first awaited stream operation when it is made; after     *)
(* that pc is "update" before the getDeployment of updateDeployment and     *)
(* "set" before stream.set.                                                 *)

Procs == 1..MaxCalls

Output(packagePath, status) ==
  [packagePath |-> packagePath, language |-> "node", status |-> status, type |-> "event"]
NoOutput == Output("", "")

\* the reports tried: every package finished, and the first one in progress
BuildOutputs ==
  {Output(k, "built") : k \in PackagePaths} \cup {Output("a", "building")}
UploadOutputs ==
  {Output(k, "uploaded") : k \in PackagePaths} \cup {Output("a", "uploading")}

\* the data given to updateDeployment
DeploymentUpdates ==
  { [status |-> "deploying", phase |-> "deploy", progress |-> 50],
    [id |-> "other", metadata |-> [totalSteps |-> 2]] }

IdleCall ==
  [pc |-> "idle", op |-> "none", id |-> "", output |-> NoOutput, success |-> FALSE,
   error |-> "", data |-> <<>>, current |-> <<>>, found |-> FALSE]

InitStream ==
  /\ pc = "call"
  /\ store = <<>>
  /\ procs = [p \in Procs |-> IdleCall]
  /\ now = 1
  /\ ramMb = <<0, 1>> /\ cpu = Zero
  /\ config = NoConfig /\ inputSchema = NoSchema /\ result = NoResult
  /\ StepIdle

\* Date.now(): the milliseconds of the clock, which has stood still or moved
\* on since it was read last; two readings can be equal
DateNow == {now, now + 1}

\* the calls are numbered in the order they are made
NextToCall(p) ==
  procs[p].pc = "idle" /\ (IF p = 1 THEN TRUE ELSE procs[p - 1].pc # "idle")

\* the call returns: its locals are gone
Return(c) == [c EXCEPT !.pc = "done", !.current = <<>>, !.data = <<>>]

\* startDeployment: await this.stream.set(deploymentId, 'data', {...})
StartDeployment(p) ==
  /\ NextToCall(p)
  /\ \E id \in DeploymentIds, time \in DateNow :
       /\ now' = time
       /\ store' = (id :> startDeploymentValue(id, time)) @@ store
       /\ procs' = [procs EXCEPT ![p] =
                      [IdleCall EXCEPT !.pc = "done", !.op = "startDeployment", !.id = id]]
  /\ UNCHANGED <<pc, validatorVars, stepVars>>

\* updateDeployment: const current = await this.getDeployment(deploymentId)
UpdateDeployment(p) ==
  /\ NextToCall(p)
  /\ \E id \in DeploymentIds, data \in DeploymentUpdates :
       procs' = [procs EXCEPT ![p] =
                   [IdleCall EXCEPT !.pc = "set", !.op = "updateDeployment", !.id = id,
                                    !.data = data, !.current = getDeployment(id)]]
  /\ UNCHANGED <<pc, store, now, validatorVars, stepVars>>

\* completeDeployment: const current = await this.getDeployment(deploymentId)
\* if (!current) return
CompleteDeployment(p) ==
  /\ NextToCall(p)
  /\ \E id \in DeploymentIds, success \in BOOLEAN :
       LET current == getDeployment(id)
           c == [IdleCall EXCEPT !.op = "completeDeployment", !.id = id,
                                 !.success = success,
                                 !.error = IF success THEN "undefined" ELSE "boom"]
       IN  procs' = [procs EXCEPT ![p] =
                       IF current = <<>> THEN [c EXCEPT !.pc = "done"]
                       ELSE [c EXCEPT !.pc = "set", !.current = current, !.found = TRUE]]
  /\ UNCHANGED <<pc, store, now, validatorVars, stepVars>>

\* updateBuildOutput up to its call of updateDeployment
UpdateBuildOutput(p) ==
  /\ NextToCall(p)
  /\ \E id \in DeploymentIds, buildOutput \in BuildOutputs :
       LET current == getDeployment(id)
           c == [IdleCall EXCEPT !.op = "updateBuildOutput", !.id = id,
                                 !.output = buildOutput]
       IN  procs' = [procs EXCEPT ![p] =
                       IF current = <<>> THEN [c EXCEPT !.pc = "done"]
                       ELSE [c EXCEPT !.pc = "update", !.current = current, !.found = TRUE,
                                      !.data = buildOutputData(current[1], buildOutput)]]
  /\ UNCHANGED <<pc, store, now, validatorVars, stepVars>>

\* updateUploadOutput up to its call of updateDeployment
UpdateUploadOutput(p) ==
  /\ NextToCall(p)
  /\ \E id \in DeploymentIds, uploadOutput \in UploadOutputs :
       LET current == getDeployment(id)
           c == [IdleCall EXCEPT !.op = "updateUploadOutput", !.id = id,
                                 !.output = uploadOutput]
       IN  procs' = [procs EXCEPT ![p] =
                       IF current = <<>> THEN [c EXCEPT !.pc = "done"]
                       ELSE [c EXCEPT !.pc = "update", !.current = current, !.found = TRUE,
                                      !.data = uploadOutputData(current[1], uploadOutput)]]
  /\ UNCHANGED <<pc, store, now, validatorVars, stepVars>>

\* updateDeployment called by updateBuildOutput / updateUploadOutput:
\* const current = await this.getDeployment(deploymentId)
UpdateDeploymentGet(p) ==
  LET c == procs[p]
  IN  /\ c.pc = "update"
      /\ procs' = [procs EXCEPT ![p] = [c EXCEPT !.pc = "set", !.current = getDeployment(c.id)]]
      /\ UNCHANGED <<pc, store, now, validatorVars, stepVars>>

\* completeDeployment: await this.stream.set(deploymentId, 'data', {...})
CompleteDeploymentSet(p) ==
  LET c == procs[p]
  IN  /\ c.pc = "set" /\ c.op = "completeDeployment"
      /\ \E time \in DateNow :
           /\ now' = time
           /\ store' = (c.id :> completeDeploymentValue(c.current[1], c.success, c.error, time))
                       @@ store
      /\ procs' = [procs EXCEPT ![p] = Return(c)]
      /\ UNCHANGED <<pc, validatorVars, stepVars>>

\* updateDeployment: await this.stream.set(deploymentId, 'data', ...)
UpdateDeploymentSet(p) ==
  LET c == procs[p]
  IN  /\ c.pc = "set"
      /\ c.op \in {"updateDeployment", "updateBuildOutput", "updateUploadOutput"}
      /\ store' = (c.id :> updateDeploymentValue(c.current, c.id, c.data)) @@ store
      /\ procs' = [procs EXCEPT ![p] = Return(c)]
      /\ UNCHANGED <<pc, now, validatorVars, stepVars>>

MakeCall(p) ==
  \/ StartDeployment(p)
  \/ UpdateDeployment(p)
  \/ CompleteDeployment(p)
  \/ UpdateBuildOutput(p)
  \/ UpdateUploadOutput(p)

Resume(p) ==
  \/ UpdateDeploymentGet(p)
  \/ CompleteDeploymentSet(p)
  \/ UpdateDeploymentSet(p)

InFlight(p) == procs[p].pc \notin {"idle", "done"}

\* the calls overlap freely
NextStream == \E p \in Procs : MakeCall(p) \/ Resume(p)

SpecStream == InitStream /\ [][NextStream]_vars

\* each call is awaited before the next one is made
NextSerial ==
  \E p \in Procs :
    \/ (\A q \in Procs : ~InFlight(q)) /\ MakeCall(p)
    \/ Resume(p)

SpecSerial == InitStream /\ [][NextSerial]_vars

----------------------------------------------------------------------------
(* Properties of getProportionalCpu, checked under SpecCpu *)

\* the numbers of the properties are exact rationals
RatSub(a, b) == Rat(a[1] * b[2] - b[1] * a[2], a[2] * b[2])
RatLT(a, b) == a[1] * b[2] < b[1] * a[2]
RatLE(a, b) == a[1] * b[2] <= b[1] * a[2]

\* the calibration table as the specification states it: <<RAM, compute units>>
CalibrationTable ==
  { <<128, <<1, 16>>>>, <<256, <<1, 8>>>>, <<512, <<1, 4>>>>, <<1024, <<1, 2>>>>,
    <<1536, <<3, 4>>>>, <<2048, <<1, 1>>>>, <<3008, <<3, 2>>>>, <<4096, <<2, 1>>>>,
    <<5120, <<5, 2>>>>, <<6144, <<3, 1>>>>, <<7168, <<7, 2>>>>, <<8192, <<4, 1>>>>,
    <<9216, <<9, 2>>>>, <<10240, <<5, 1>>>> }

\* C9: on each of the 14 calibration RAM values getProportionalCpu returns
\* exactly the compute value the table gives for it.
C9_ExactCalibration ==
  pc = "done" =>
    \A p \in CalibrationTable : ramMb = <<p[1], 1>> => cpu = Double(p[2][1], p[2][2])

C9_Witness == pc = "done" /\ ramMb = <<3008, 1>> /\ cpu = Double(3, 2)

\* C10: for a RAM value strictly between two adjacent calibration points the
\* result is cpuLow + (cpuHigh - cpuLow) * (ram - ramLow) / (ramHigh - ramLow),
\* taken over the nearest calibration point on each side and evaluated on
\* doubles in the order written; 1792 gives 0.875.
C10_LinearInterpolation ==
  pc = "done" =>
    LET below == {p \in CalibrationTable : RatLT(<<p[1], 1>>, ramMb)}
        above == {p \in CalibrationTable : RatLT(ramMb, <<p[1], 1>>)}
    IN  /\ (below # {} /\ above # {}) =>
             LET lo == CHOOSE p \in below : \A q \in below : q[1] <= p[1]
                 hi == CHOOSE p \in above : \A q \in above : p[1] <= q[1]
                 cpuLow == Double(lo[2][1], lo[2][2])
                 cpuHigh == Double(hi[2][1], hi[2][2])
                 expected ==
                   DblAdd(cpuLow,
                          DblDiv(DblMul(DblSub(cpuHigh, cpuLow),
                                        DblSub(Double(ramMb[1], ramMb[2]), DblOfInt(lo[1]))),
                                 DblOfInt(hi[1] - lo[1])))
             IN  (\A p \in CalibrationTable : p[1] <= lo[1] \/ p[1] >= hi[1])
                   => cpu = expected
        /\ (ramMb = <<1792, 1>> => cpu = Double(7, 8))

C10_Witness == pc = "done" /\ ramMb = <<1792, 1>> /\ cpu = Double(7, 8)

\* C11: the function clamps and never extrapolates: every RAM value below
\* 128 gives 0.0625 and every RAM value above 10240 gives 5, so 64 gives what
\* 128 gives and 20000 gives what 10240 gives.
C11_ClampsOutsideTable ==
  pc = "done" =>
    /\ RatLT(ramMb, <<128, 1>>) => cpu = Double(1, 16)
    /\ RatLT(<<10240, 1>>, ramMb) => cpu = Double(5, 1)
    /\ ramMb \in {<<64, 1>>, <<128, 1>>} => cpu = Double(1, 16)
    /\ ramMb \in {<<10240, 1>>, <<20000, 1>>} => cpu = Double(5, 1)

C11_Witness == pc = "done" /\ ramMb = <<20000, 1>> /\ cpu = Double(5, 1)

\* RAM values around which the results are compared: each calibration point
\* and its neighbours, and values outside the table
ComparedRams ==
  UNION {{p[1] - 1, p[1], p[1] + 1} : p \in CalibrationTable} \cup {0, 64, 1792, 20000}

\* the result on each of them
ComparedCpus == [a \in ComparedRams |-> getProportionalCpu(DblOfInt(a))]

\* C12: the function is total and monotonically non-decreasing: a <= b
\* implies getProportionalCpu(a) <= getProportionalCpu(b), and every result
\* lies in [0.0625, 5].
C12_MonotoneAndBounded ==
  pc = "done" =>
    /\ DblLE(Double(1, 16), cpu) /\ DblLE(cpu, Double(5, 1))
    /\ RatLE(<<1, 1>>, ramMb) =>
         LET less == RatSub(ramMb, <<1, 1>>)
         IN  DblLE(getProportionalCpu(Double(less[1], less[2])), cpu)
    /\ \A a \in ComparedRams :
         /\ RatLE(<<a, 1>>, ramMb) => DblLE(ComparedCpus[a], cpu)
         /\ RatLE(ramMb, <<a, 1>>) => DblLE(cpu, ComparedCpus[a])

\* a result strictly inside a bracket, above the one of its left neighbour
C12_Witness ==
  /\ pc = "done" /\ ramMb = <<3500, 1>>
  /\ DblLT(getProportionalCpu(DblOfInt(3499)), cpu) /\ DblLT(cpu, Double(2, 1))

----------------------------------------------------------------------------
(* Properties of validateInfrastructureConfig, checked under Spec *)

Returns == pc = "done" /\ result.kind = "return"

\* the fields as the caller wrote them
Ram == HandlerField(config, "ram")
Timeout == HandlerField(config, "timeout")
Cpu == HandlerField(config, "cpu")
VisibilityTimeout == QueueField(config, "visibilityTimeout")
MessageGroupId == QueueField(config, "messageGroupId")

\* the reported violations with the given path
ErrorsAt(path) == {i \in DOMAIN result.errors : result.errors[i].path = path}

StartsWith(str, prefix) ==
  Len(str) >= Len(prefix) /\ SubSeq(str, 1, Len(prefix)) = prefix

\* the cross-field violation is among the reported ones
VisibilityViolationReported ==
  \E i \in ErrorsAt("queue.visibilityTimeout") :
    StartsWith(result.errors[i].message.text, "Visibility timeout")

\* the proportionality violations among the reported ones
ProportionalityViolations ==
  {i \in ErrorsAt("handler.cpu") :
     StartsWith(result.errors[i].message.text, "CPU (")}

\* every present field has the JavaScript type its schema declares (its
\* value may still be out of range or no permitted literal)
WellTyped(c) ==
  /\ c.t = "object"
  /\ c.handler.t \in {"object", "undefined"} /\ c.queue.t \in {"object", "undefined"}
  /\ \A f \in {"ram", "timeout", "cpu"} : c.handler[f].t \in {"undefined", "number"}
  /\ c.handler.machineType.t \in {"undefined", "string"}
  /\ \A f \in {"visibilityTimeout", "maxRetries"} : c.queue[f].t \in {"undefined", "number"}
  /\ \A f \in {"type", "retryStrategy"} : c.queue[f].t \in {"undefined", "string"}
  /\ c.queue.messageGroupId.t \in {"undefined", "null", "string"}

\* C1: in every descriptor with handler.timeout and queue.visibilityTimeout
\* both present the cross-field violation at queue.visibilityTimeout is
\* reported exactly when visibilityTimeout <= timeout; with either absent it
\* is not reported.
C1_CrossFieldExactly ==
  (pc = "done" /\ WellTyped(config)) =>
    /\ (Timeout.t = "number" /\ VisibilityTimeout.t = "number") =>
         (VisibilityViolationReported <=> RatLE(VisibilityTimeout.n, Timeout.n))
    /\ (Timeout.t = "undefined" \/ VisibilityTimeout.t = "undefined") =>
         ~VisibilityViolationReported

\* what each pass produces on the descriptor, as {path, message} records
PassErrors(c, schema) ==
  LET issues ==
        ZodOptional(c.handler, handlerBaseSchema(c.handler, <<"handler">>)).issues
        \o ZodOptional(c.queue, queueSchema(c.queue, <<"queue">>)).issues
        \o cpuRefinement(c) \o visibilityRefinement(c) \o fifoRefinement(c)
        \o messageGroupIdRefinement(c, schema)
  IN  {[path |-> Join(issues[i].path, "."), message |-> issues[i].message] :
         i \in DOMAIN issues}

\* C2: the returned violations are the union of the violations of the
\* handler field rules, the queue field rules, the cross-field rules and the
\* message-grouping-key rule on the same descriptor.
C2_UnionOfAllPasses ==
  (Returns /\ config.t = "object" /\ ~ParseRaises(config)) =>
    {result.errors[i] : i \in DOMAIN result.errors} = PassErrors(config, inputSchema)

\* C3: whenever handler.timeout and queue.visibilityTimeout are numbers with
\* visibilityTimeout <= timeout, a violation at queue.visibilityTimeout is
\* in the result, whatever other field violations the descriptor has.
C3_CrossFieldDespiteFieldFailures ==
  (pc = "done" /\ WellTyped(config)
     /\ Timeout.t = "number" /\ VisibilityTimeout.t = "number"
     /\ RatLE(VisibilityTimeout.n, Timeout.n)) =>
    ErrorsAt("queue.visibilityTimeout") # {}

WrongShape(c) ==
  \/ c.t # "object"
  \/ c.handler.t \notin {"object", "undefined"}
  \/ c.queue.t \notin {"object", "undefined"}

\* C5: a descriptor of the wrong shape, or one with an unknown top-level
\* field, gets a failure result with a violation, never success.
C5_StructuralMismatchFails ==
  (pc = "done" /\ (WrongShape(config) \/ config.unknownKey)) =>
    (result.kind = "return" /\ ~result.success /\ result.errors # <<>>)

\* the rules of the specification for the fields that are present
IsInteger(v) == v.t = "number" /\ v.n[2] = 1
FieldRulesHold(c) ==
  LET h == c.handler
      q == c.queue
  IN  /\ c.t = "object" /\ ~c.unknownKey
      /\ h.t \in {"object", "undefined"} /\ q.t \in {"object", "undefined"}
      /\ h.ram.t = "undefined"
           \/ (IsInteger(h.ram) /\ 128 <= h.ram.n[1] /\ h.ram.n[1] <= 10240)
      /\ h.timeout.t = "undefined"
           \/ (IsInteger(h.timeout) /\ 1 <= h.timeout.n[1] /\ h.timeout.n[1] <= 900)
      /\ h.cpu.t \in {"undefined", "number"}
      /\ h.machineType.t = "undefined"
           \/ (h.machineType.t = "string" /\ h.machineType.s \in {"cpu", "memory", "gpu"})
      /\ q.type.t = "undefined"
           \/ (q.type.t = "string" /\ q.type.s \in {"standard", "fifo"})
      /\ q.visibilityTimeout.t \in {"undefined", "number"}
      /\ q.messageGroupId.t \in {"undefined", "null", "string"}
      /\ q.maxRetries.t = "undefined"
           \/ (IsInteger(q.maxRetries) /\ q.maxRetries.n[1] >= 0)
      /\ q.retryStrategy.t = "undefined"
           \/ (q.retryStrategy.t = "string"
                 /\ q.retryStrategy.s \in {"none", "exponential", "jitter"})

\* |cpu - getProportionalCpu(ram)| <= 0.1, in the arithmetic of the program
WithinTolerance(vcpu, vram) ==
  DblLE(DblAbs(DblSub(NumberOf(vcpu), getProportionalCpu(NumberOf(vram)))), Double(1, 10))

ConditionalRulesHold(c, schema) ==
  LET h == c.handler
      q == c.queue
      keyGiven == q.messageGroupId.t = "string" /\ q.messageGroupId.s # ""
  IN  /\ (q.type.t = "string" /\ q.type.s = "fifo") => keyGiven
      /\ (q.visibilityTimeout.t = "number" /\ h.timeout.t = "number") =>
           RatLT(h.timeout.n, q.visibilityTimeout.n)
      /\ (h.cpu.t = "number" /\ h.ram.t = "number") =>
           WithinTolerance(h.cpu, h.ram)
      /\ keyGiven =>
           /\ schema.t = "object" /\ schema.shape.t = "object"
           /\ ~Includes(q.messageGroupId.s, ".") /\ ~Includes(q.messageGroupId.s, "[")
           /\ q.messageGroupId.s \in schema.shape.keys

\* C6: absent fields are never flagged: {} succeeds, and so does every
\* descriptor whose present fields satisfy their own rules and the
\* conditional rules for the fields jointly present.
C6_AbsentFieldsNotFlagged ==
  pc = "done" =>
    /\ config = ObjectDescriptor(EmptyDescriptor) => (result.kind = "return" /\ result.success)
    /\ (FieldRulesHold(config) /\ ConditionalRulesHold(config, inputSchema)) =>
         (result.kind = "return" /\ result.success)

\* a partial descriptor: a handler without timeout, a fifo queue with its key
C6_Witness ==
  /\ Returns /\ result.success
  /\ FieldRulesHold(config) /\ ConditionalRulesHold(config, inputSchema)
  /\ config.handler.t = "object" /\ config.handler.timeout.t = "undefined"
  /\ config.handler.ram.t = "number" /\ config.handler.cpu.t = "number"
  /\ config.queue.t = "object" /\ config.queue.type = Str("fifo")
  /\ config.queue.maxRetries.t = "undefined"

\* a violation at `path` whose message names the bound
NamesBound(path, bound) ==
  \E i \in ErrorsAt(path) : result.errors[i].message.nums = << <<bound, 1>> >>

\* C7: a present handler.ram gets a violation at handler.ram exactly when
\* ram < 128 or ram > 10240, a present handler.timeout one at handler.timeout
\* exactly when timeout < 1 or timeout > 900; the bounds themselves are
\* accepted and the message names the violated bound.
C7_HandlerRanges ==
  (Returns /\ config.t = "object" /\ config.handler.t = "object") =>
    /\ Ram.t = "number" =>
         /\ (ErrorsAt("handler.ram") # {}) <=>
              (RatLT(Ram.n, <<128, 1>>) \/ RatLT(<<10240, 1>>, Ram.n))
         /\ RatLT(Ram.n, <<128, 1>>) => NamesBound("handler.ram", 128)
         /\ RatLT(<<10240, 1>>, Ram.n) => NamesBound("handler.ram", 10240)
    /\ Timeout.t = "number" =>
         /\ (ErrorsAt("handler.timeout") # {}) <=>
              (RatLT(Timeout.n, <<1, 1>>) \/ RatLT(<<900, 1>>, Timeout.n))
         /\ RatLT(Timeout.n, <<1, 1>>) => NamesBound("handler.timeout", 1)
         /\ RatLT(<<900, 1>>, Timeout.n) => NamesBound("handler.timeout", 900)

\* RAM above the maximum next to a timeout at its lower bound
C7_Witness ==
  /\ Returns
  /\ Ram = Num(10241, 1) /\ NamesBound("handler.ram", 10240)
  /\ Timeout = Num(1, 1) /\ ErrorsAt("handler.timeout") = {}

\* C8: with handler.cpu and handler.ram both present (as numbers) exactly
\* one proportionality violation at handler.cpu is reported when
\* |cpu - getProportionalCpu(ram)| > 0.1 and none otherwise (the difference
\* and the comparison are those of doubles); with cpu or ram absent none is
\* reported; the message carries the observed cpu and the expected value.
C8_CpuProportionality ==
  (pc = "done" /\ WellTyped(config)) =>
    /\ (Cpu.t = "number" /\ Ram.t = "number") =>
         LET expected == getProportionalCpu(NumberOf(Ram))
         IN  IF ~WithinTolerance(Cpu, Ram)
             THEN /\ Cardinality(ErrorsAt("handler.cpu")) = 1
                  /\ \A i \in ErrorsAt("handler.cpu") :
                       /\ result.errors[i].message.nums[1] = Cpu.n
                       /\ result.errors[i].message.nums[3] = Rat(ToFixed2(expected), 100)
             ELSE ErrorsAt("handler.cpu") = {}
    /\ (Cpu.t = "undefined" \/ Ram.t = "undefined") => ProportionalityViolations = {}

\* a present field of an enumerated type gets a violation at its path
\* exactly when its value is outside the permitted literals
EnumRule(v, path, permitted) ==
  v.t # "undefined" =>
    ((ErrorsAt(path) # {}) <=> ~(v.t = "string" /\ v.s \in permitted))

\* C13: a present handler.machineType outside {cpu, memory, gpu}, a present
\* queue.type outside {standard, fifo} and a present queue.retryStrategy
\* outside {none, exponential, jitter} each yield a violation at that field's
\* dotted path; every permitted value yields no violation for that field.
C13_EnumRules ==
  (Returns /\ config.t = "object" /\ ~ParseRaises(config)) =>
    /\ EnumRule(HandlerField(config, "machineType"), "handler.machineType",
                {"cpu", "memory", "gpu"})
    /\ EnumRule(QueueField(config, "type"), "queue.type", {"standard", "fifo"})
    /\ EnumRule(QueueField(config, "retryStrategy"), "queue.retryStrategy",
                {"none", "exponential", "jitter"})

\* an unknown machine type next to a permitted retry strategy
C13_Witness ==
  /\ Returns
  /\ HandlerField(config, "machineType") = Str("invalid")
  /\ ErrorsAt("handler.machineType") # {}
  /\ QueueField(config, "retryStrategy") = Str("jitter")
  /\ ErrorsAt("queue.retryStrategy") = {}

\* C14: a present queue.maxRetries is accepted exactly when it is an integer
\* >= 0: every negative value and every non-integer value (such as 1.5)
\* yields a violation at queue.maxRetries.
C14_MaxRetriesIntegerNonNegative ==
  (Returns /\ QueueField(config, "maxRetries").t = "number") =>
    LET maxRetries == QueueField(config, "maxRetries")
    IN  (ErrorsAt("queue.maxRetries") = {}) <=>
          (IsInteger(maxRetries) /\ maxRetries.n[1] >= 0)

\* the reported violations at queue.messageGroupId whose message begins
\* with the given words
GroupIdViolations(words) ==
  {i \in ErrorsAt("queue.messageGroupId") :
     StartsWith(result.errors[i].message.text, words)}

RequiredReported == GroupIdViolations("messageGroupId is required") # {}
NoSchemaReported ==
  \E i \in GroupIdViolations("Cannot validate messageGroupId") :
    /\ result.errors[i].message.key = MessageGroupId.s
    /\ result.errors[i].message.text =
         "Cannot validate messageGroupId \"{key}\" - step has no input schema defined"
KeyPathReported ==
  \E i \in ErrorsAt("queue.messageGroupId") :
    /\ result.errors[i].message.key = MessageGroupId.s
    /\ result.errors[i].message.text =
         "messageGroupId \"{key}\" must be a simple field path. Nested paths and template expressions are not supported"
KeyNotFoundReported ==
  \E i \in ErrorsAt("queue.messageGroupId") :
    /\ result.errors[i].message.key = MessageGroupId.s
    /\ result.errors[i].message.text =
         "messageGroupId \"{key}\" does not exist in step's input schema"

KeyGiven == MessageGroupId.t = "string" /\ MessageGroupId.s # ""
KeyAbsentNullOrEmpty ==
  MessageGroupId.t \in {"undefined", "null"} \/ MessageGroupId = Str("")
KeyIsPath == Includes(MessageGroupId.s, ".") \/ Includes(MessageGroupId.s, "[")

\* C15: the 'messageGroupId is required' violation at queue.messageGroupId
\* is reported exactly when queue.type is 'fifo' and messageGroupId is
\* absent, null or ''; with type 'standard' or absent it is never reported.
C15_FifoRequiresKey ==
  (pc = "done" /\ WellTyped(config)) =>
    (RequiredReported <=>
       (QueueField(config, "type") = Str("fifo") /\ KeyAbsentNullOrEmpty))

\* C16: whenever queue.messageGroupId is a non-empty string and no input
\* schema is supplied, the result is a failure with the 'cannot validate, no
\* input schema' violation at queue.messageGroupId, whatever the key looks
\* like.
C16_NoSchemaIsViolation ==
  (pc = "done" /\ WellTyped(config) /\ KeyGiven /\ inputSchema.t = "undefined") =>
    (Returns /\ ~result.success /\ NoSchemaReported)

\* the descriptor satisfies every rule that does not involve messageGroupId
OtherwiseValid(c) ==
  LET h == c.handler
      q == c.queue
  IN  /\ FieldRulesHold(c)
      /\ (q.visibilityTimeout.t = "number" /\ h.timeout.t = "number") =>
           RatLT(h.timeout.n, q.visibilityTimeout.n)
      /\ (h.cpu.t = "number" /\ h.ram.t = "number") =>
           WithinTolerance(h.cpu, h.ram)

\* C17 as stated: messageGroupId validation is skipped when no input schema
\* is provided: an otherwise valid descriptor with a messageGroupId yields no
\* violation at queue.messageGroupId when called without an input schema.
C17_SkippedWithoutSchema ==
  (pc = "done" /\ OtherwiseValid(config) /\ KeyGiven /\ inputSchema.t = "undefined") =>
    ErrorsAt("queue.messageGroupId") = {}

\* C17 as amended: messageGroupId validation is not skipped when no input
\* schema is provided: an otherwise valid descriptor with a non-empty
\* messageGroupId, called without an input schema, fails with exactly one
\* violation, the 'cannot validate, no input schema' one at
\* queue.messageGroupId.
C17_NotSkippedWithoutSchema ==
  (pc = "done" /\ OtherwiseValid(config) /\ KeyGiven /\ inputSchema.t = "undefined") =>
    /\ Returns /\ ~result.success
    /\ Len(result.errors) = 1
    /\ Cardinality(GroupIdViolations("Cannot validate messageGroupId")) = 1

\* the complete descriptor of the build tests, called without a schema
C17_Witness ==
  /\ Returns /\ config = ObjectDescriptor(CompleteDescriptor)
  /\ inputSchema.t = "undefined"
  /\ Len(result.errors) = 1 /\ result.errors[1].path = "queue.messageGroupId"

\* C18: with an input schema supplied, every messageGroupId containing '.'
\* or '[' yields the 'must be a simple field path' violation and no
\* key-not-found violation, whether or not a field of that name exists.
C18_PathLikeKeyRejected ==
  (pc = "done" /\ WellTyped(config) /\ KeyGiven /\ KeyIsPath
     /\ inputSchema.t # "undefined") =>
    (KeyPathReported /\ ~KeyNotFoundReported)

\* C19: with an input schema supplied and a bare key k, the check passes
\* exactly when k is a declared field of the schema: every k outside the
\* declared set (inherited names such as 'constructor' or 'toString'
\* included, and any k when the schema exposes no field map) yields the
\* 'does not exist in step's input schema' violation naming k, and every
\* declared k yields none.
C19_BareKeyMustBeDeclared ==
  (pc = "done" /\ OtherwiseValid(config) /\ KeyGiven /\ ~KeyIsPath
     /\ inputSchema.t # "undefined"
     /\ inputSchema.shape.t \in {"undefined", "object"}) =>
    LET declared ==
          inputSchema.shape.t = "object" /\ MessageGroupId.s \in inputSchema.shape.keys
    IN  /\ ~declared => KeyNotFoundReported
        /\ declared => ErrorsAt("queue.messageGroupId") = {}

\* the schema lookup of the messageGroupId refinement is reached and raises
LookupRaises ==
  /\ config.t = "object" /\ ~ParseRaises(config)
  /\ infrastructureSchema(config).status # "aborted"
  /\ KeyGiven /\ ~KeyIsPath
  /\ inputSchema.t # "undefined"
  /\ inputSchema.shape.t \in {"throws", "throwsValue", "number"}

\* what the passes other than the messageGroupId one produce on the descriptor
OtherPassErrors(c) ==
  LET issues ==
        ZodOptional(c.handler, handlerBaseSchema(c.handler, <<"handler">>)).issues
        \o ZodOptional(c.queue, queueSchema(c.queue, <<"queue">>)).issues
        \o cpuRefinement(c) \o visibilityRefinement(c) \o fifoRefinement(c)
  IN  {[path |-> Join(issues[i].path, "."), message |-> issues[i].message] :
         i \in DOMAIN issues}

\* the description of a fault: the message of an Error, the text of a
\* string that was thrown
FaultDescription(fault) == fault.s

\* text ends with suffix
EndsWith(text, suffix) ==
  /\ Len(text) >= Len(suffix)
  /\ SubSeq(text, Len(text) - Len(suffix) + 1, Len(text)) = suffix

\* C20: a fault raised while the schema is queried (reading its field map or
\* testing membership) is caught and reported as one violation at
\* queue.messageGroupId whose message carries the fault's description; the
\* violations collected by the other passes are still returned with it.
C20_LookupFaultReported ==
  (pc = "done" /\ LookupRaises) =>
    /\ Returns /\ ~result.success
    /\ Cardinality(ErrorsAt("queue.messageGroupId")) = 1
    /\ \A i \in ErrorsAt("queue.messageGroupId") :
         /\ result.errors[i].message.key = MessageGroupId.s
         /\ StartsWith(result.errors[i].message.text, "Failed to validate messageGroupId")
         /\ EndsWith(result.errors[i].message.text,
                     FaultDescription(lookupFault(inputSchema)))
    /\ OtherPassErrors(config) \subseteq {result.errors[i] : i \in DOMAIN result.errors}

\* the violations of the last four kinds of the decision chain
ChainViolations ==
  GroupIdViolations("Cannot validate messageGroupId")
    \cup GroupIdViolations("messageGroupId \"{key}\" must be a simple field path")
    \cup GroupIdViolations("messageGroupId \"{key}\" does not exist")
    \cup GroupIdViolations("Failed to validate messageGroupId")

\* C23: for every descriptor and schema the result holds at most one
\* violation at queue.messageGroupId (the fifo-required, schema-unavailable,
\* key-path, key-not-found and introspection-failure violations exclude each
\* other), and an absent, null or empty messageGroupId produces none of the
\* last four.
C23_AtMostOneGroupIdViolation ==
  pc = "done" =>
    /\ Cardinality(ErrorsAt("queue.messageGroupId")) <= 1
    /\ Cardinality(GroupIdViolations("messageGroupId is required") \cup ChainViolations) <= 1
    /\ KeyAbsentNullOrEmpty => ChainViolations = {}

\* a fifo queue whose key is not in the schema: one violation, of the chain
C23_Witness ==
  /\ Returns /\ QueueField(config, "type") = Str("fifo") /\ KeyGiven
  /\ Cardinality(ErrorsAt("queue.messageGroupId")) = 1
  /\ KeyNotFoundReported

----------------------------------------------------------------------------
(* Properties of validateStep, checked under SpecStep *)

StepKinds == {"noop", "event", "api", "cron"}
StepKindKnown ==
  /\ step.hasConfig
  /\ StepValue(step, "type").t = "string" /\ StepValue(step, "type").s \in StepKinds

\* C21 as stated: every failure result of validateStep carries both an
\* error string and an errors list of {path, message} records, the failure
\* for a step type that is none of noop, event, api, cron and the one for an
\* unexpected fault included; validateStep never throws.
C21_FailureCarriesErrorsList ==
  pc = "done" =>
    /\ stepResult.kind = "return"
    /\ ~stepResult.success => (stepResult.error # "" /\ stepResult.hasErrors)

\* C21 as amended: validateStep never throws and every failure result
\* carries a non-empty error string; it carries the errors list of {path,
\* message} records exactly when a step schema rejected the config, and
\* then error is the messages of that list joined by ', '; the failure for
\* a step type that is none of noop, event, api, cron ('Invalid step type')
\* and the one for an unexpected fault carry no errors list.
C21_ErrorsListOnlyFromSchemas ==
  pc = "done" =>
    /\ stepResult.kind = "return"
    /\ ~stepResult.success =>
         /\ stepResult.error # ""
         /\ stepResult.hasErrors <=> StepKindKnown
         /\ stepResult.hasErrors =>
              /\ stepResult.errors # <<>>
              /\ \A i \in DOMAIN stepResult.errors : stepResult.errors[i].message.text # ""
              /\ stepResult.error =
                   Join([i \in DOMAIN stepResult.errors |-> stepResult.errors[i].message.text], ", ")
         /\ (step.hasConfig /\ ~StepKindKnown) => stepResult.error = "Invalid step type"
         /\ ~step.hasConfig => stepResult.error = "Unexpected validation error occurred"

\* a step without config: the fault is caught and returned without a list
C21_Witness ==
  /\ pc = "done" /\ ~step.hasConfig
  /\ stepResult.kind = "return" /\ ~stepResult.success /\ ~stepResult.hasErrors

\* String.prototype.includes
RECURSIVE Contains(_, _)
Contains(str, sub) ==
  IF Len(str) < Len(sub) THEN FALSE
  ELSE IF SubSeq(str, 1, Len(sub)) = sub THEN TRUE
  ELSE Contains(SubSeq(str, 2, Len(str)), sub)

\* C22: for a step of kind event, api or cron the result of validateStep is
\* the same for every value of config.infrastructure (absent, valid, or a
\* descriptor that validateInfrastructureConfig rejects); a noop step that
\* carries an infrastructure field is rejected as having an unknown key.
C22_IndependentOfInfrastructure ==
  (pc = "done" /\ StepKindKnown) =>
    /\ step.type.s # "noop" =>
         stepResult = validateStep(WithoutKey(step, "infrastructure"))
    /\ (step.type.s = "noop" /\ HasKey(step, "infrastructure")) =>
         /\ stepResult.kind = "return" /\ ~stepResult.success
         /\ \E i \in DOMAIN stepResult.errors :
              /\ StartsWith(stepResult.errors[i].message.text, "Unrecognized key(s) in object: ")
              /\ Contains(stepResult.errors[i].message.text, "'infrastructure'")

\* an event step that is valid but for a descriptor the infrastructure
\* validator rejects
C22_Witness ==
  /\ pc = "done" /\ step.hasConfig /\ StepValue(step, "type") = Str("event")
  /\ HasKey(step, "infrastructure") /\ step.infrastructure.t = "object"
  /\ ~validateInfrastructureConfig(step.infrastructure,
                                   [t |-> "object", shape |-> Shape("object", {"traceId", "userId"})]).success
  /\ stepResult.kind = "return" /\ stepResult.success

----------------------------------------------------------------------------
(* Properties of the DeploymentStreamManager, checked under SpecStream      *)
(* (overlapping calls) and SpecSerial (one call at a time)                  *)

OutputCalls == {"updateBuildOutput", "updateUploadOutput"}

\* the calls made so far, and whether all of them have returned
Made == {p \in Procs : procs[p].pc # "idle"}
NoCallInFlight == \A p \in Procs : ~InFlight(p)

\* an optional property of a record
Opt(record, key, default) == IF key \in DOMAIN record THEN record[key] ELSE default

\* the first call was startDeployment(d) and every later call is one of
\* `ops` on d that found the record startDeployment stored
StartedThen(d, ops) ==
  /\ d \in DOMAIN store
  /\ procs[1].op = "startDeployment" /\ procs[1].id = d
  /\ \A p \in Made \ {1} :
       procs[p].op \in ops /\ procs[p].id = d /\ (procs[p].found \/ InFlight(p))

OutputList(record, op) == IF op = "updateBuildOutput" THEN record.build ELSE record.upload

\* C24: no build or upload update is lost under concurrency: when several
\* updateBuildOutput (or updateUploadOutput) calls for distinct packagePaths
\* of the same existing deployment run with their get and set steps
\* interleaved, then once all calls have completed the stored build (or
\* upload) list has an entry for every reported packagePath.
C24_NoLostUpdate ==
  \A d \in DeploymentIds, op \in OutputCalls :
    ( /\ NoCallInFlight /\ StartedThen(d, {op})
      /\ \A p, q \in Made \ {1} :
           p # q => procs[p].output.packagePath # procs[q].output.packagePath )
    => \A p \in Made \ {1} :
         \E i \in DOMAIN OutputList(store[d], op) :
           OutputList(store[d], op)[i].packagePath = procs[p].output.packagePath

\* the counters of the record agree with its lists (a counter that was
\* never written counts as 0)
CountersMatchLists(record) ==
  /\ Opt(record.metadata, "buildedSteps", 0) = countStatus(record.build, "built")
  /\ Opt(record.metadata, "uploadedSteps", 0) = countStatus(record.upload, "uploaded")

\* C25: in every state reached from startDeployment by any sequence or
\* interleaving of updateBuildOutput and updateUploadOutput calls, once no
\* call is in flight metadata.buildedSteps is the number of build entries
\* with status 'built' and metadata.uploadedSteps the number of upload
\* entries with status 'uploaded'.
C25_CountersMatchLists ==
  \A d \in DeploymentIds :
    (NoCallInFlight /\ StartedThen(d, OutputCalls)) => CountersMatchLists(store[d])

\* C26: in every state reached from startDeployment by any sequence of
\* updateBuildOutput and updateUploadOutput calls run one at a time,
\* metadata.buildedSteps <= metadata.totalSteps and metadata.uploadedSteps
\* <= metadata.totalSteps.
C26_CountersWithinTotal ==
  \A d \in DeploymentIds :
    StartedThen(d, OutputCalls) =>
      /\ Opt(store[d].metadata, "buildedSteps", 0) <= store[d].metadata.totalSteps
      /\ Opt(store[d].metadata, "uploadedSteps", 0) <= store[d].metadata.totalSteps

NoSharedPackagePath(list) ==
  \A i, j \in DOMAIN list : list[i].packagePath = list[j].packagePath => i = j

\* the list a call computed from the list it read: the reported output in
\* place of the entry with its packagePath, or appended when there is none
ReplacesOrAppends(list, output, updated) ==
  LET present == {i \in DOMAIN list : list[i].packagePath = output.packagePath}
  IN  IF present # {}
      THEN /\ Len(updated) = Len(list)
           /\ \A i \in DOMAIN list :
                updated[i] = (IF i \in present THEN output ELSE list[i])
      ELSE updated = Append(list, output)

Sets(p) == procs[p].pc = "set" /\ procs'[p].pc = "done"

Finished(record) == record.status \in {"completed", "failed"}

\* C28: once completeDeployment has written status 'completed' or 'failed'
\* (phase null, progress 100), an updateBuildOutput or updateUploadOutput
\* call on the same deployment that completes afterwards, even one that read
\* the record before the completion was written, leaves status, phase,
\* progress, message and completedAt unchanged.
C28_FinishedStaysFinished ==
  [][ \A p \in Procs :
        ( /\ Sets(p) /\ procs[p].op \in OutputCalls
          /\ procs[p].id \in DOMAIN store /\ Finished(store[procs[p].id]) )
        => LET old == store[procs[p].id]
               new == store'[procs[p].id]
           IN  /\ new.status = old.status
               /\ new.phase = old.phase
               /\ new.progress = old.progress
               /\ new.message = old.message
               /\ Opt(new, "completedAt", 0) = Opt(old, "completedAt", 0) ]_vars

\* C29: completeDeployment on an existing record sets status to 'completed'
\* when success is true and to 'failed' otherwise, sets phase to null and
\* progress to 100, and leaves id, build, upload, metadata and startedAt
\* equal to those of the stored record at the time of the write, also when
\* an updateBuildOutput or updateUploadOutput call interleaves between its
\* read and its write.
C29_CompleteKeepsTheRest ==
  [][ \A p \in Procs :
        (Sets(p) /\ procs[p].op = "completeDeployment") =>
          LET old == store[procs[p].id]
              new == store'[procs[p].id]
          IN  /\ new.status = (IF procs[p].success THEN "completed" ELSE "failed")
              /\ new.phase = "null"
              /\ new.progress = 100
              /\ new.id = old.id
              /\ new.build = old.build
              /\ new.upload = old.upload
              /\ new.metadata = old.metadata
              /\ Opt(new, "startedAt", 0) = Opt(old, "startedAt", 0) ]_vars

\* call p is made in this step
IsMade(p) == procs[p].pc = "idle" /\ procs'[p].pc # "idle"

\* the defaults with the properties of data over them and the id of the call
DefaultsMergedWith(data, deploymentId) ==
  [k \in {"id", "status", "phase", "progress", "message", "build", "upload", "metadata"}
          \cup DOMAIN data |->
     IF k = "id" THEN deploymentId
     ELSE IF k \in DOMAIN data THEN data[k]
     ELSE CASE k = "status" -> "idle"
            [] k = "phase" -> "null"
            [] k = "progress" -> 0
            [] k = "message" -> "No deployment in progress"
            [] k \in {"build", "upload"} -> <<>>
            [] k = "metadata" -> [totalSteps |-> 0]]

\* C30: completeDeployment, updateBuildOutput and updateUploadOutput called
\* for a deploymentId without stored record leave the store unchanged
\* (they return and write nothing); updateDeployment for such an id stores
\* the defaults merged with the given data; startDeployment stores a fresh
\* record with status 'building', phase 'build' and empty build and upload
\* lists; in every stored record id is the deploymentId it is stored under.
C30_UnknownDeploymentNotCreated ==
  /\ [](\A d \in DOMAIN store : store[d].id = d)
  /\ [][ \A p \in Procs :
           /\ ( /\ IsMade(p) /\ procs'[p].op \in OutputCalls \cup {"completeDeployment"}
                /\ procs'[p].id \notin DOMAIN store )
              => (store' = store /\ procs'[p].pc = "done")
           /\ \A d \in DeploymentIds :
                (d \notin DOMAIN store /\ d \in DOMAIN store' /\ procs[p].pc # procs'[p].pc)
                => (procs'[p].op \in {"startDeployment", "updateDeployment"} /\ procs'[p].id = d)
           /\ (Sets(p) /\ procs[p].op = "updateDeployment" /\ procs[p].current = <<>>)
              => store'[procs[p].id] = DefaultsMergedWith(procs[p].data, procs[p].id)
           /\ (IsMade(p) /\ procs'[p].op = "startDeployment")
              => LET new == store'[procs'[p].id]
                 IN  /\ new.status = "building" /\ new.phase = "build"
                     /\ new.build = <<>> /\ new.upload = <<>> ]_vars

\* a build report for an id without record returned and stored nothing,
\* and updateDeployment created a record from the defaults under its own id
C30_Witness ==
  \E p, q \in Procs :
    /\ procs[p].op = "updateBuildOutput" /\ procs[p].pc = "done" /\ ~procs[p].found
    /\ procs[p].id \notin DOMAIN store
    /\ procs[q].op = "updateDeployment" /\ procs[q].pc = "done"
    /\ procs[q].id \in DOMAIN store
    /\ store[procs[q].id].message = "No deployment in progress"
    /\ store[procs[q].id].metadata = [totalSteps |-> 2]

====
